---- MODULE Spec2Model ----
(***************************************************************************)
(* FloraSeven server: connection-health subsystem.                         *)
(*                                                                         *)
(*   connection_status.py   the activity ledger and the state classifier   *)
(*   connection_monitor.py  ConnectionMonitor: lifecycle, monitoring loop, *)
(*                          tick, notification policy, health summary      *)
(*                                                                         *)
(* Times are seconds on one integer clock (datetime.now()).  A Python      *)
(* None / absent value is the empty sequence << >>, a present value v is   *)
(* << v >>.  A dict is a function whose DOMAIN is the set of its keys.     *)
(***************************************************************************)
EXTENDS Integers, Sequences, FiniteSets, TLC

VARIABLES
    timeouts,                 \* config.TIMEOUT_WARNING, TIMEOUT_ERROR, TIMEOUT_CRITICAL as loaded
    now,                      \* the wall clock, datetime.now(), in seconds
    component_last_activity,  \* connection_status._component_last_activity
    component_status,         \* connection_status._component_status
    status_result,            \* what get_component_status returned in the last step, if called
    records,                  \* number of record_component_activity calls made
    monitor_state,            \* ConnectionMonitor._state
    monitor_thread,           \* ConnectionMonitor._thread (<< >> or << thread id >>)
    loops,                    \* the monitoring-loop threads created so far
    component_registry,       \* ConnectionMonitor._component_registry (live fields)
    event_history,            \* ConnectionMonitor._event_history
    last_notification_time,   \* ConnectionMonitor._last_notification_time
    notifications,            \* calls of _send_notification, in order
    policy_log,               \* calls of _check_notification_needed and their outcome
    snapshots,                \* rows of the ConnectionStatus table (status_data), in order
    database,                 \* the SQLite file: whether it can be written, and the rows of
                              \* its ConnectionEvents and Notifications tables, in order
    monitor_lock,             \* ConnectionMonitor._lock: << >>, or the frame of the
                              \* _check_all_components call that holds it
    ledger_lock,              \* connection_status._lock: << >>, or the frame of the
                              \* check_components or get_all_component_status call
                              \* that holds it
    last_notification,        \* connection_status._last_notification
    login_attempts,           \* server.py: login.attempts, failed-login times per address
    session,                  \* server.py: the Flask session of each client
    connected,                \* MQTTClient.connected
    link,                     \* whether the paho client has a session with the broker
    reconnect_delay,          \* MQTTClient.reconnect_delay
    message_queue,            \* MQTTClient.message_queue, oldest first
    published,                \* the messages client.publish accepted, in order
    mqtt_threads,             \* MQTTClient: whether start() ran, where the reconnection
                              \* thread is, and queue_processor_running
    connection_pool,          \* database._connection_pool: thread id -> connection
    last_connection_time,     \* database._last_connection_time
    db_threads,               \* what each thread that uses the database is doing
    last_call                 \* the lifecycle call of the last step and what it returned

ledgerVars == <<component_last_activity, component_status, records>>
lifecycleVars == <<monitor_state, monitor_thread>>
tickVars == <<component_registry, event_history, last_notification_time, notifications,
              policy_log>>
ioVars == <<database, monitor_lock, ledger_lock, last_notification>>
loginVars == <<login_attempts, session>>
mqttVars == <<connected, link, reconnect_delay, message_queue, published, mqtt_threads>>
poolVars == <<connection_pool, last_connection_time, db_threads>>
serviceVars == <<loginVars, mqttVars, poolVars>>
vars == <<timeouts, now, ledgerVars, status_result, lifecycleVars, loops, tickVars, snapshots,
          ioVars, serviceVars, last_call>>

----------------------------------------------------------------------------
(* Bounds of the model *)

MaxRecords == 2
MaxThreads == 2
MaxFailures == 3

\* The number of ticks of the long run that takes a history past its cap.
MaxTicks == 103

\* The clock readings the model visits (seconds): the classifier's thresholds,
\* one check interval after the first and the last of them, and the first
\* reading at which a cooldown begun at the last threshold has expired.
TimePoints == {0, 300, 360, 600, 1800, 1860, 2100}

\* The readings of a run longer than the 24 hours of the uptime window: the
\* warning and the critical threshold, the last reading at which an entry
\* written at the critical threshold has left the window, and one check
\* interval later.
DayPoints == {0, 300, 1800, 88200, 88260}

\* The readings of a run longer than the 7 days of the event retention: the
\* start and the warning threshold, a reading past the uptime window, the
\* readings at which an event written at 0 and one written at the warning
\* threshold are exactly 7 days old, and one check interval after each.
WeekPoints == {0, 300, 90000, 604800, 604860, 605100, 605160}

\* The readings of a short run: the start, the warning threshold and one check
\* interval later.
ShortPoints == {0, 300, 360}

\* Component ids given to record_component_activity: the registry ids of the
\* hub (critical), the camera (not critical) and a sensor (critical).
Keys == {"main_hub", "camera", "moisture"}

\* The id the MQTT ingestion derives for a plant node (mqtt_client.py:523).
IngestionKeys == {"plant_node_node1"}

\* The ids the MQTT handlers derive for a plant node, a hub and a camera
\* (f'plant_node_{node_id}', f'hub_node_{node_id}', f'camera_{node_id}'), each
\* with the registry id of the component that stands for the device.
DeviceComponent ==
    [k \in {"plant_node_node1", "hub_node_hub1", "camera_cam1"} |->
        CASE k = "plant_node_node1" -> "plant_node"
          [] k = "hub_node_hub1" -> "main_hub"
          [] OTHER -> "camera"]

----------------------------------------------------------------------------
(* config.py *)

CONNECTION_CHECK_INTERVAL == 60
CONNECTION_NOTIFICATION_COOLDOWN == 300
TIMEOUT_WARNING == 300
TIMEOUT_ERROR == 600
TIMEOUT_CRITICAL == 1800
MQTT_RECONNECT_DELAY_MIN == 1
MQTT_RECONNECT_DELAY_MAX == 60

\* The thresholds config.py has when the environment sets none of them.
DefaultTimeouts ==
    [warning |-> TIMEOUT_WARNING, error |-> TIMEOUT_ERROR, critical |-> TIMEOUT_CRITICAL]

\* The clock readings of the long run of a device that keeps going stale: the
\* loop thread ticks at the multiples of the warning threshold, and the device
\* reports at 0 and then, half a check interval after every second tick,
\* every TIMEOUT_ERROR seconds.
FlapPoints ==
    {TIMEOUT_WARNING * k : k \in 0..MaxTicks} \cup
    {TIMEOUT_WARNING + CONNECTION_CHECK_INTERVAL \div 2 + TIMEOUT_ERROR * k :
         k \in 0..(MaxTicks \div 2)}

\* Thresholds the environment can set (TIMEOUT_WARNING, TIMEOUT_ERROR and
\* TIMEOUT_CRITICAL are int(os.getenv(...))): ordered and out of order.
TimeoutChoices ==
    [warning : {TIMEOUT_WARNING, TIMEOUT_ERROR},
     error : {TIMEOUT_WARNING, TIMEOUT_ERROR},
     critical : {TIMEOUT_WARNING, TIMEOUT_CRITICAL}]

(* connection_status.py / connection_monitor.py constants *)

CONNECTION_STATE_ONLINE == "online"
CONNECTION_STATE_WARNING == "warning"
CONNECTION_STATE_ERROR == "error"
CONNECTION_STATE_CRITICAL == "critical"
CONNECTION_STATE_UNKNOWN == "unknown"

ConnectionStates == {CONNECTION_STATE_ONLINE, CONNECTION_STATE_WARNING,
                     CONNECTION_STATE_ERROR, CONNECTION_STATE_CRITICAL,
                     CONNECTION_STATE_UNKNOWN}

MONITOR_STATE_ACTIVE == "active"
MONITOR_STATE_PAUSED == "paused"
MONITOR_STATE_STOPPED == "stopped"

COMPONENT_TYPE_HUB == "hub"
COMPONENT_TYPE_PLANT_NODE == "plant_node"
COMPONENT_TYPE_CAMERA == "camera"
COMPONENT_TYPE_SENSOR == "sensor"

HISTORY_RETENTION_DAYS == 7

\* timedelta(days=HISTORY_RETENTION_DAYS) and timedelta(hours=24), in seconds
RetentionSeconds == HISTORY_RETENTION_DAYS * 24 * 3600
MetricsWindowSeconds == 24 * 3600

\* connection_history keeps its last 100 entries
HistoryCap == 100

----------------------------------------------------------------------------
(* Python dict helpers *)

DictPut(d, k, v) == [x \in (DOMAIN d) \cup {k} |-> IF x = k THEN v ELSE d[x]]

EmptyDict == [x \in {} |-> 0]

----------------------------------------------------------------------------
(* Python dict and datetime helpers, continued *)

\* datetime.isoformat() and datetime.fromisoformat().  The text is the
\* calendar form of the clock reading; texts of this one format compare as
\* strings in the order of the instants they denote, and fromisoformat gives
\* back the instant, so the model keeps the instant inside the text value.
IsoFormat(t) == [iso |-> t]
FromIsoFormat(s) == s.iso

----------------------------------------------------------------------------
(* connection_status.py: the ledger and the classifier *)

\* ClassifyElapsed with the first comparison off by one (<= for <).
ClassifyElapsedInclusive(elapsed) ==
    IF elapsed <= timeouts.warning THEN CONNECTION_STATE_ONLINE
    ELSE IF elapsed < timeouts.error THEN CONNECTION_STATE_WARNING
    ELSE IF elapsed < timeouts.critical THEN CONNECTION_STATE_ERROR
    ELSE CONNECTION_STATE_CRITICAL

\* The if/elif chain of get_component_status on the elapsed seconds, against
\* the thresholds of the config module.
ClassifyElapsed(elapsed) ==
    IF elapsed < timeouts.warning THEN CONNECTION_STATE_ONLINE
    ELSE IF elapsed < timeouts.error THEN CONNECTION_STATE_WARNING
    ELSE IF elapsed < timeouts.critical THEN CONNECTION_STATE_ERROR
    ELSE CONNECTION_STATE_CRITICAL

\* The message that goes with each branch; the f-strings carry int(elapsed).
StatusMessage(elapsed) ==
    IF elapsed < timeouts.warning THEN <<"Component is online">>
    ELSE IF elapsed < timeouts.error THEN <<"Component has not reported in", elapsed>>
    ELSE IF elapsed < timeouts.critical THEN <<"Component may be offline", elapsed>>
    ELSE <<"Component is offline", elapsed>>

\* get_component_status(component_id), evaluated on a ledger at a clock reading.
GetComponentStatus(ledger, clock, component_id) ==
    IF component_id \notin DOMAIN ledger
    THEN [status |-> CONNECTION_STATE_UNKNOWN,
          last_activity |-> << >>,
          time_since_last_activity |-> << >>,
          message |-> <<"No activity recorded for this component">>]
    ELSE LET time_since_last_activity == clock - ledger[component_id]
         IN [status |-> ClassifyElapsed(time_since_last_activity),
             last_activity |-> <<ledger[component_id]>>,
             time_since_last_activity |-> <<time_since_last_activity>>,
             message |-> StatusMessage(time_since_last_activity)]

\* A step that is no get_component_status call and no lifecycle call returns
\* nothing to keep.
NoReturn ==
    /\ status_result' = << >>
    /\ last_call' = << >>

\* record_component_activity keeping the entry a component already has
\* (setdefault instead of assignment).
RecordComponentActivityFirstWins(component_id) ==
    /\ ledger_lock = << >>
    /\ records < MaxRecords
    /\ records' = records + 1
    /\ component_last_activity' =
           IF component_id \in DOMAIN component_last_activity THEN component_last_activity
           ELSE DictPut(component_last_activity, component_id, now)
    /\ component_status' =
           IF component_id \in DOMAIN component_status THEN component_status
           ELSE DictPut(component_status, component_id,
                        [status |-> CONNECTION_STATE_ONLINE,
                         last_activity |-> IsoFormat(now),
                         message |-> <<"Component is online">>])
    /\ NoReturn
    /\ UNCHANGED <<timeouts, serviceVars, ioVars, now, lifecycleVars, loops, tickVars, snapshots>>

\* record_component_activity(component_id)
RecordComponentActivity(component_id) ==
    /\ ledger_lock = << >>
    /\ records < MaxRecords
    /\ records' = records + 1
    /\ component_last_activity' = DictPut(component_last_activity, component_id, now)
    /\ component_status' = DictPut(component_status, component_id,
                                   [status |-> CONNECTION_STATE_ONLINE,
                                    last_activity |-> IsoFormat(now),
                                    message |-> <<"Component is online">>])
    /\ NoReturn
    /\ UNCHANGED <<timeouts, serviceVars, ioVars, now, lifecycleVars, loops, tickVars, snapshots>>

\* A caller invokes get_component_status(component_id).
CallGetComponentStatus(component_id) ==
    /\ ledger_lock = << >>
    /\ status_result' = <<[component_id |-> component_id,
                           result |-> GetComponentStatus(component_last_activity, now,
                                                         component_id)]>>
    /\ last_call' = << >>
    /\ UNCHANGED <<timeouts, serviceVars, ioVars, now, ledgerVars, lifecycleVars, loops, tickVars, snapshots>>

\* A loop thread that is not waiting for the clock: it is at the while test,
\* in the tick ("tick" up to the release of the lock, "store" after it) or in
\* the except clause, or its sleep has ended.
Runnable(loop) ==
    \/ loop.pc \in {"while", "tick", "store", "except"}
    \/ loop.pc = "sleep" /\ now >= loop.wake

\* Time passes, to the next reading t of a set of readings.  The steps of a
\* loop thread take no time on this clock, and time.sleep returns at the first
\* reading at or after its deadline: the clock moves only when no loop thread
\* is runnable.
AdvanceWithin(points, t) ==
    /\ t > now
    /\ \A u \in points : u > now => t <= u
    /\ \A i \in 1..Len(loops) : ~Runnable(loops[i])
    /\ now' = t
    /\ NoReturn
    /\ UNCHANGED <<timeouts, serviceVars, ioVars, ledgerVars, lifecycleVars, loops, tickVars, snapshots>>

Advance(t) == AdvanceWithin(TimePoints, t)

\* Time passes in the long run, and in the short one.
AdvanceDay(t) == AdvanceWithin(DayPoints, t)

AdvanceShort(t) == AdvanceWithin(ShortPoints, t)

AdvanceWeek(t) == AdvanceWithin(WeekPoints, t)

----------------------------------------------------------------------------
(* connection_monitor.py: the static catalog of _initialize_registry *)

RegistryOrder == <<"main_hub", "plant_node", "camera", "moisture", "temperature",
                   "light", "ec", "ph", "uv">>

ComponentIds == {RegistryOrder[i] : i \in 1..Len(RegistryOrder)}

\* _register_component(component_id, component_type, display_name, critical,
\* expected_interval, parent): the registry entry it creates.
RegisterComponent(component_id, component_type, display_name, critical, expected_interval, parent) ==
    [id |-> component_id,
     type |-> component_type,
     name |-> display_name,
     critical |-> critical,
     expected_interval |-> expected_interval,
     parent |-> parent,
     last_seen |-> << >>,
     state |-> CONNECTION_STATE_UNKNOWN,
     message |-> <<"Not yet connected">>,
     consecutive_failures |-> 0,
     uptime_percentage |-> <<0, 1>>,
     connection_history |-> << >>]

\* _initialize_registry(): the registry after construction.  uptime_percentage
\* is the exact fraction << connected, total >>, standing for
\* connected / total * 100; the initial 0.0 is << 0, 1 >>.
InitializeRegistry ==
    [c \in ComponentIds |->
        CASE c = "main_hub" ->
               RegisterComponent(c, COMPONENT_TYPE_HUB, "Main Hub", TRUE, 60, << >>)
          [] c = "plant_node" ->
               RegisterComponent(c, COMPONENT_TYPE_PLANT_NODE, "Plant Node", TRUE, 60, << >>)
          [] c = "camera" ->
               RegisterComponent(c, COMPONENT_TYPE_CAMERA, "Camera", FALSE, 300, << >>)
          [] c = "moisture" ->
               RegisterComponent(c, COMPONENT_TYPE_SENSOR, "Moisture Sensor", TRUE, 60,
                                 <<"plant_node">>)
          [] c = "temperature" ->
               RegisterComponent(c, COMPONENT_TYPE_SENSOR, "Temperature Sensor", FALSE, 60,
                                 <<"plant_node">>)
          [] c = "light" ->
               RegisterComponent(c, COMPONENT_TYPE_SENSOR, "Light Sensor", FALSE, 60,
                                 <<"plant_node">>)
          [] c = "ec" ->
               RegisterComponent(c, COMPONENT_TYPE_SENSOR, "EC Sensor", FALSE, 60,
                                 <<"plant_node">>)
          [] c = "ph" ->
               RegisterComponent(c, COMPONENT_TYPE_SENSOR, "pH Sensor", FALSE, 60,
                                 <<"main_hub">>)
          [] OTHER ->
               RegisterComponent(c, COMPONENT_TYPE_SENSOR, "UV Sensor", FALSE, 60,
                                 <<"main_hub">>)]

\* Keys of connection_status._sensor_metadata.
SensorMetadataKeys == {"moisture", "temp_soil", "light_lux", "ec_raw", "ph_water",
                       "uv_ambient", "temp_ambient", "humidity"}

\* connection_status.get_connection_status(): imported and called by the
\* monitor, defined nowhere in the sources.  Modelled from the specification's
\* tick step 2 (reclassify every component from the ledger's last-seen): one
\* entry per ledger key with the classifier's state and message and the ISO
\* text of the last activity, the sensor keys also under "sensors".
StatusData(ledger, clock, k) ==
    LET r == GetComponentStatus(ledger, clock, k)
    IN [state |-> r.status, message |-> r.message,
        last_connected |-> IsoFormat(ledger[k])]

GetConnectionStatus(ledger, clock) ==
    [components |-> [k \in DOMAIN ledger |-> StatusData(ledger, clock, k)],
     sensors |-> [k \in (DOMAIN ledger) \cap SensorMetadataKeys |->
                     StatusData(ledger, clock, k)]]

----------------------------------------------------------------------------
(* connection_monitor.py: one tick.  The tick works on the monitor's mutable   *)
(* fields, gathered in a record m:                                             *)
(*   reg (_component_registry), events (_event_history),                       *)
(*   last_notif (_last_notification_time), notifs (notifications sent),        *)
(*   plog (policy calls), changed (status_changed)                             *)

\* _update_component_status without the reset of consecutive_failures.
UpdateComponentStatusNoReset(component, status_data, clock) ==
    LET state == IF "state" \in DOMAIN status_data THEN status_data.state
                 ELSE CONNECTION_STATE_UNKNOWN
        message == IF "message" \in DOMAIN status_data THEN status_data.message
                   ELSE component.message
        last_seen == IF "last_connected" \in DOMAIN status_data
                     THEN IF "iso" \in DOMAIN status_data.last_connected
                          THEN <<FromIsoFormat(status_data.last_connected)>>
                          ELSE <<clock>>
                     ELSE component.last_seen
        consecutive_failures ==
            IF state \in {CONNECTION_STATE_WARNING, CONNECTION_STATE_ERROR,
                          CONNECTION_STATE_CRITICAL}
            THEN component.consecutive_failures + 1
            ELSE component.consecutive_failures
    IN [component EXCEPT !.state = state, !.message = message, !.last_seen = last_seen,
                         !.consecutive_failures = consecutive_failures]

\* _update_component_status leaving the state as it is when the status says
\* online.
UpdateComponentStatusNoRecovery(component, status_data, clock) ==
    LET reported == IF "state" \in DOMAIN status_data THEN status_data.state
                    ELSE CONNECTION_STATE_UNKNOWN
        state == IF reported = CONNECTION_STATE_ONLINE /\
                    component.state # CONNECTION_STATE_UNKNOWN
                 THEN component.state ELSE reported
        message == IF "message" \in DOMAIN status_data THEN status_data.message
                   ELSE component.message
        last_seen == IF "last_connected" \in DOMAIN status_data
                     THEN IF "iso" \in DOMAIN status_data.last_connected
                          THEN <<FromIsoFormat(status_data.last_connected)>>
                          ELSE <<clock>>
                     ELSE component.last_seen
        consecutive_failures ==
            IF state = CONNECTION_STATE_ONLINE THEN 0
            ELSE IF state \in {CONNECTION_STATE_WARNING, CONNECTION_STATE_ERROR,
                               CONNECTION_STATE_CRITICAL}
                 THEN component.consecutive_failures + 1
                 ELSE component.consecutive_failures
    IN [component EXCEPT !.state = state, !.message = message, !.last_seen = last_seen,
                         !.consecutive_failures = consecutive_failures]

\* _update_component_status resetting the counter only when the component
\* comes back from error or critical, not from warning.
UpdateComponentStatusResetAfterOutage(component, status_data, clock) ==
    LET state == IF "state" \in DOMAIN status_data THEN status_data.state
                 ELSE CONNECTION_STATE_UNKNOWN
        message == IF "message" \in DOMAIN status_data THEN status_data.message
                   ELSE component.message
        last_seen == IF "last_connected" \in DOMAIN status_data
                     THEN IF "iso" \in DOMAIN status_data.last_connected
                          THEN <<FromIsoFormat(status_data.last_connected)>>
                          ELSE <<clock>>
                     ELSE component.last_seen
        consecutive_failures ==
            IF /\ state = CONNECTION_STATE_ONLINE
               /\ component.state \in {CONNECTION_STATE_ERROR, CONNECTION_STATE_CRITICAL}
            THEN 0
            ELSE IF state \in {CONNECTION_STATE_WARNING, CONNECTION_STATE_ERROR,
                               CONNECTION_STATE_CRITICAL}
                 THEN component.consecutive_failures + 1
                 ELSE component.consecutive_failures
    IN [component EXCEPT !.state = state, !.message = message, !.last_seen = last_seen,
                         !.consecutive_failures = consecutive_failures]

\* _update_component_status(component_id, status_data) on one registry entry.
UpdateComponentStatus(component, status_data, clock) ==
    LET state == IF "state" \in DOMAIN status_data THEN status_data.state
                 ELSE CONNECTION_STATE_UNKNOWN
        message == IF "message" \in DOMAIN status_data THEN status_data.message
                   ELSE component.message
        last_seen == IF "last_connected" \in DOMAIN status_data
                     THEN IF "iso" \in DOMAIN status_data.last_connected
                          THEN <<FromIsoFormat(status_data.last_connected)>>
                          ELSE <<clock>>
                     ELSE component.last_seen
        consecutive_failures ==
            IF state = CONNECTION_STATE_ONLINE THEN 0
            ELSE IF state \in {CONNECTION_STATE_WARNING, CONNECTION_STATE_ERROR,
                               CONNECTION_STATE_CRITICAL}
                 THEN component.consecutive_failures + 1
                 ELSE component.consecutive_failures
    IN [component EXCEPT !.state = state, !.message = message, !.last_seen = last_seen,
                         !.consecutive_failures = consecutive_failures]

\* The cooldown test at the head of _check_notification_needed.
InCooldown(last_notif, component_id, clock) ==
    /\ component_id \in DOMAIN last_notif
    /\ clock - last_notif[component_id] < CONNECTION_NOTIFICATION_COOLDOWN

\* The chain with the criticality test of the warning branch left out.
NotificationDecisionAnyWarning(component, previous_state, new_state) ==
    IF /\ new_state = CONNECTION_STATE_ONLINE
       /\ previous_state \in {CONNECTION_STATE_WARNING, CONNECTION_STATE_ERROR,
                              CONNECTION_STATE_CRITICAL}
    THEN [send |-> TRUE, severity |-> "info", message |-> "has reconnected"]
    ELSE IF new_state = CONNECTION_STATE_WARNING
    THEN [send |-> TRUE, severity |-> "warning", message |-> "connection is degraded"]
    ELSE IF new_state \in {CONNECTION_STATE_ERROR, CONNECTION_STATE_CRITICAL}
    THEN [send |-> TRUE,
          severity |-> IF component.critical THEN "error" ELSE "warning",
          message |-> "has disconnected"]
    ELSE [send |-> FALSE, severity |-> "info", message |-> ""]

\* The if/elif chain of _check_notification_needed: whether to send, and the
\* severity.
NotificationDecision(component, previous_state, new_state) ==
    IF /\ new_state = CONNECTION_STATE_ONLINE
       /\ previous_state \in {CONNECTION_STATE_WARNING, CONNECTION_STATE_ERROR,
                              CONNECTION_STATE_CRITICAL}
    THEN [send |-> TRUE, severity |-> "info", message |-> "has reconnected"]
    ELSE IF new_state = CONNECTION_STATE_WARNING /\ component.critical
    THEN [send |-> TRUE, severity |-> "warning", message |-> "connection is degraded"]
    ELSE IF new_state \in {CONNECTION_STATE_ERROR, CONNECTION_STATE_CRITICAL}
    THEN [send |-> TRUE,
          severity |-> IF component.critical THEN "error" ELSE "warning",
          message |-> "has disconnected"]
    ELSE [send |-> FALSE, severity |-> "info", message |-> ""]

\* database.add_notification(component_id=, severity=, message=, timestamp=):
\* one row of the Notifications table, or an exception and no row when the
\* database cannot be written.
AddNotification(db, component_id, severity, message, clock) ==
    IF db.available
    THEN [db EXCEPT !.Notifications =
             Append(@, [timestamp |-> IsoFormat(clock), component_id |-> component_id,
                        severity |-> severity, message |-> message])]
    ELSE db

\* _send_notification(component_id, severity, message): the NOTIFICATION log
\* line; the database.add_notification call that follows it, whose failure is
\* caught and logged, is AddNotification.
SendNotification(notifs, component_id, severity, message, clock) ==
    Append(notifs, [component_id |-> component_id, severity |-> severity,
                    message |-> message, timestamp |-> clock])

\* _check_notification_needed without the cooldown test.
CheckNotificationNeededNoCooldown(m, component_id, previous_state, new_state, clock) ==
    LET component == m.reg[component_id]
        d == NotificationDecision(component, previous_state, new_state)
        entry == [component_id |-> component_id, previous_state |-> previous_state,
                  new_state |-> new_state, timestamp |-> clock,
                  sent_before |-> Len(m.notifs), sent |-> d.send,
                  severity |-> IF d.send THEN <<d.severity>> ELSE << >>]
    IN IF d.send
       THEN [m EXCEPT !.notifs = SendNotification(m.notifs, component_id, d.severity,
                                                  d.message, clock),
                      !.db = AddNotification(m.db, component_id, d.severity, d.message,
                                             clock),
                      !.last_notif = DictPut(m.last_notif, component_id, clock),
                      !.plog = Append(m.plog, entry)]
       ELSE [m EXCEPT !.plog = Append(m.plog, entry)]

\* _check_notification_needed keeping one last-send time for all components
\* (under the key of the first registered component).
CheckNotificationNeededSharedCooldown(m, component_id, previous_state, new_state, clock) ==
    LET component == m.reg[component_id]
        cooldown == InCooldown(m.last_notif, RegistryOrder[1], clock)
        d == NotificationDecision(component, previous_state, new_state)
        sent == ~cooldown /\ d.send
        entry == [component_id |-> component_id, previous_state |-> previous_state,
                  new_state |-> new_state, timestamp |-> clock,
                  sent_before |-> Len(m.notifs), sent |-> sent,
                  severity |-> IF sent THEN <<d.severity>> ELSE << >>]
    IN IF sent
       THEN [m EXCEPT !.notifs = SendNotification(m.notifs, component_id, d.severity,
                                                  d.message, clock),
                      !.db = AddNotification(m.db, component_id, d.severity, d.message,
                                             clock),
                      !.last_notif = DictPut(m.last_notif, RegistryOrder[1], clock),
                      !.plog = Append(m.plog, entry)]
       ELSE [m EXCEPT !.plog = Append(m.plog, entry)]

\* _check_notification_needed(component_id, previous_state, new_state).  Each
\* call is written to plog with the transition, the number of notifications
\* sent before it, and whether it sent one and with which severity.
CheckNotificationNeeded(m, component_id, previous_state, new_state, clock) ==
    LET component == m.reg[component_id]
        cooldown == InCooldown(m.last_notif, component_id, clock)
        d == NotificationDecision(component, previous_state, new_state)
        sent == ~cooldown /\ d.send
        entry == [component_id |-> component_id, previous_state |-> previous_state,
                  new_state |-> new_state, timestamp |-> clock,
                  sent_before |-> Len(m.notifs), sent |-> sent,
                  severity |-> IF sent THEN <<d.severity>> ELSE << >>]
    IN IF sent
       THEN [m EXCEPT !.notifs = SendNotification(m.notifs, component_id, d.severity,
                                                  d.message, clock),
                      !.db = AddNotification(m.db, component_id, d.severity, d.message,
                                             clock),
                      !.last_notif = DictPut(m.last_notif, component_id, clock),
                      !.plog = Append(m.plog, entry)]
       ELSE [m EXCEPT !.plog = Append(m.plog, entry)]

\* _handle_state_change(component_id, previous_state, new_state).  No event
\* callback is registered by the server, so _trigger_event_callbacks does
\* nothing.
HandleStateChange(m, component_id, previous_state, new_state, clock) ==
    LET component == m.reg[component_id]
        event == [component_id |-> component_id,
                  component_name |-> component.name,
                  component_type |-> component.type,
                  previous_state |-> previous_state,
                  new_state |-> new_state,
                  timestamp |-> IsoFormat(clock),
                  message |-> component.message]
        entry == [state |-> new_state, timestamp |-> IsoFormat(clock),
                  message |-> component.message]
        m1 == [m EXCEPT !.events = Append(m.events, event),
                        !.reg[component_id].connection_history =
                            Append(component.connection_history, entry)]
    IN CheckNotificationNeeded(m1, component_id, previous_state, new_state, clock)

\* The loop body running the notification policy in every tick in which the
\* component is warning, error or critical, changed or not.
CheckComponentNotifySteady(m, component_id, current_status, clock) ==
    LET component == m.reg[component_id]
        previous_state == component.state
        found == IF component.type = COMPONENT_TYPE_SENSOR
                 THEN component_id \in DOMAIN current_status.sensors
                 ELSE component_id \in DOMAIN current_status.components
        status_data == IF component.type = COMPONENT_TYPE_SENSOR
                       THEN current_status.sensors[component_id]
                       ELSE current_status.components[component_id]
        m1 == IF found
              THEN [m EXCEPT !.reg[component_id] =
                        UpdateComponentStatus(component, status_data, clock)]
              ELSE m
        new_state == m1.reg[component_id].state
    IN IF new_state # previous_state
       THEN HandleStateChange([m1 EXCEPT !.changed = TRUE], component_id,
                              previous_state, new_state, clock)
       ELSE IF new_state \in {CONNECTION_STATE_WARNING, CONNECTION_STATE_ERROR,
                              CONNECTION_STATE_CRITICAL}
       THEN CheckNotificationNeeded(m1, component_id, previous_state, new_state, clock)
       ELSE m1

\* The loop body taking only a change into warning, error or critical for a
\* state change, as connection_status.check_components does.
CheckComponentFailuresOnly(m, component_id, current_status, clock) ==
    LET component == m.reg[component_id]
        previous_state == component.state
        found == IF component.type = COMPONENT_TYPE_SENSOR
                 THEN component_id \in DOMAIN current_status.sensors
                 ELSE component_id \in DOMAIN current_status.components
        status_data == IF component.type = COMPONENT_TYPE_SENSOR
                       THEN current_status.sensors[component_id]
                       ELSE current_status.components[component_id]
        m1 == IF found
              THEN [m EXCEPT !.reg[component_id] =
                        UpdateComponentStatus(component, status_data, clock)]
              ELSE m
        new_state == m1.reg[component_id].state
    IN IF new_state # previous_state /\ new_state # CONNECTION_STATE_ONLINE
       THEN HandleStateChange([m1 EXCEPT !.changed = TRUE], component_id,
                              previous_state, new_state, clock)
       ELSE m1

\* The loop body taking the answer of get_component_status for a component
\* that has no entry in the status.
CheckComponentMissingAsUnknown(m, component_id, current_status, clock) ==
    LET component == m.reg[component_id]
        previous_state == component.state
        found == IF component.type = COMPONENT_TYPE_SENSOR
                 THEN component_id \in DOMAIN current_status.sensors
                 ELSE component_id \in DOMAIN current_status.components
        status_data == IF ~found
                       THEN [state |-> CONNECTION_STATE_UNKNOWN,
                             message |-> <<"No activity recorded for this component">>]
                       ELSE IF component.type = COMPONENT_TYPE_SENSOR
                       THEN current_status.sensors[component_id]
                       ELSE current_status.components[component_id]
        m1 == [m EXCEPT !.reg[component_id] =
                  UpdateComponentStatus(component, status_data, clock)]
        new_state == m1.reg[component_id].state
    IN IF new_state # previous_state
       THEN HandleStateChange([m1 EXCEPT !.changed = TRUE], component_id,
                              previous_state, new_state, clock)
       ELSE m1

\* The body of the for loop of _check_all_components for one component.
CheckComponent(m, component_id, current_status, clock) ==
    LET component == m.reg[component_id]
        previous_state == component.state
        found == IF component.type = COMPONENT_TYPE_SENSOR
                 THEN component_id \in DOMAIN current_status.sensors
                 ELSE component_id \in DOMAIN current_status.components
        status_data == IF component.type = COMPONENT_TYPE_SENSOR
                       THEN current_status.sensors[component_id]
                       ELSE current_status.components[component_id]
        m1 == IF found
              THEN [m EXCEPT !.reg[component_id] =
                        UpdateComponentStatus(component, status_data, clock)]
              ELSE m
        new_state == m1.reg[component_id].state
    IN IF new_state # previous_state
       THEN HandleStateChange([m1 EXCEPT !.changed = TRUE], component_id,
                              previous_state, new_state, clock)
       ELSE m1

\* The for loop over self._component_registry.items(), in insertion order.
RECURSIVE CheckComponents(_, _, _, _)
CheckComponents(m, i, current_status, clock) ==
    IF i > Len(RegistryOrder) THEN m
    ELSE CheckComponents(CheckComponent(m, RegistryOrder[i], current_status, clock),
                         i + 1, current_status, clock)

\* The for loop when the status entry of component bad is not a dict (None, a
\* string): status_data.get raises AttributeError in _update_component_status
\* before anything of bad is assigned, and the exception leaves the loop.  The
\* components registered before bad have been processed.
RECURSIVE CheckComponentsRaising(_, _, _, _, _)
CheckComponentsRaising(m, i, bad, current_status, clock) ==
    IF RegistryOrder[i] = bad THEN m
    ELSE CheckComponentsRaising(CheckComponent(m, RegistryOrder[i], current_status, clock),
                                i + 1, bad, current_status, clock)

----------------------------------------------------------------------------
(* connection_monitor.py: derived metrics, eviction, snapshot *)

RECURSIVE Gcd(_, _)
Gcd(a, b) == IF b = 0 THEN a ELSE Gcd(b, a % b)

\* connected_time / total_time * 100 as an exact fraction in lowest terms, so
\* that equal percentages are equal values.
Percentage(connected_time, total_time) ==
    LET g == Gcd(connected_time, total_time)
    IN <<connected_time \div g, total_time \div g>>

\* history.sort(key=lambda h: h["timestamp"]): a stable sort by timestamp.
RECURSIVE InsertByTimestamp(_, _)
InsertByTimestamp(sorted, h) ==
    IF sorted = << >> THEN <<h>>
    ELSE IF FromIsoFormat(sorted[Len(sorted)].timestamp) <= FromIsoFormat(h.timestamp)
    THEN Append(sorted, h)
    ELSE Append(InsertByTimestamp(SubSeq(sorted, 1, Len(sorted) - 1), h),
                sorted[Len(sorted)])

RECURSIVE SortByTimestamp(_)
SortByTimestamp(history) ==
    IF history = << >> THEN << >>
    ELSE InsertByTimestamp(SortByTimestamp(SubSeq(history, 1, Len(history) - 1)),
                           history[Len(history)])

\* The duration loop of _calculate_metrics over the sorted in-window history:
\* << connected_time, total_time >> accumulated from entry i on.
RECURSIVE SumDurations(_, _, _)
SumDurations(history, i, clock) ==
    IF i > Len(history) THEN <<0, 0>>
    ELSE LET start_time == FromIsoFormat(history[i].timestamp)
             end_time == IF i < Len(history)
                         THEN FromIsoFormat(history[i + 1].timestamp)
                         ELSE clock
             duration == end_time - start_time
             rest == SumDurations(history, i + 1, clock)
         IN <<rest[1] + (IF history[i].state = CONNECTION_STATE_ONLINE
                         THEN duration ELSE 0),
              rest[2] + duration>>

\* The loop body limiting the history with [:100], the oldest hundred.
ComponentMetricsKeepOldest(component, clock) ==
    IF component.connection_history = << >> THEN component
    ELSE LET history == SortByTimestamp(
                 SelectSeq(component.connection_history,
                           LAMBDA h : FromIsoFormat(h.timestamp) >
                                      clock - MetricsWindowSeconds))
             sums == SumDurations(history, 1, clock)
             uptime == IF history # << >> /\ sums[2] > 0
                       THEN Percentage(sums[1], sums[2])
                       ELSE component.uptime_percentage
             n == Len(component.connection_history)
             kept == IF n > HistoryCap
                     THEN SubSeq(component.connection_history, 1, HistoryCap)
                     ELSE component.connection_history
         IN [component EXCEPT !.uptime_percentage = uptime,
                              !.connection_history = kept]

\* The loop body setting the uptime to 0 when no entry is inside the window.
ComponentMetricsResetOutside(component, clock) ==
    IF component.connection_history = << >> THEN component
    ELSE LET history == SortByTimestamp(
                 SelectSeq(component.connection_history,
                           LAMBDA h : FromIsoFormat(h.timestamp) >
                                      clock - MetricsWindowSeconds))
             sums == SumDurations(history, 1, clock)
             uptime == IF history # << >> /\ sums[2] > 0
                       THEN Percentage(sums[1], sums[2])
                       ELSE IF history = << >> THEN <<0, 1>>
                       ELSE component.uptime_percentage
             n == Len(component.connection_history)
             kept == IF n > HistoryCap
                     THEN SubSeq(component.connection_history, n - HistoryCap + 1, n)
                     ELSE component.connection_history
         IN [component EXCEPT !.uptime_percentage = uptime,
                              !.connection_history = kept]

\* The body of the for loop of _calculate_metrics for one component.
ComponentMetrics(component, clock) ==
    IF component.connection_history = << >> THEN component
    ELSE LET history == SortByTimestamp(
                 SelectSeq(component.connection_history,
                           LAMBDA h : FromIsoFormat(h.timestamp) >
                                      clock - MetricsWindowSeconds))
             sums == SumDurations(history, 1, clock)
             uptime == IF history # << >> /\ sums[2] > 0
                       THEN Percentage(sums[1], sums[2])
                       ELSE component.uptime_percentage
             n == Len(component.connection_history)
             kept == IF n > HistoryCap
                     THEN SubSeq(component.connection_history, n - HistoryCap + 1, n)
                     ELSE component.connection_history
         IN [component EXCEPT !.uptime_percentage = uptime,
                              !.connection_history = kept]

\* _calculate_metrics()
CalculateMetrics(reg, clock) ==
    [c \in DOMAIN reg |-> ComponentMetrics(reg[c], clock)]

\* _clean_history() cutting at the 24 hours of the uptime window.
CleanHistoryDayWindow(events, clock) ==
    SelectSeq(events, LAMBDA e : FromIsoFormat(e.timestamp) > clock - MetricsWindowSeconds)

\* _clean_history()
CleanHistory(events, clock) ==
    SelectSeq(events, LAMBDA e : FromIsoFormat(e.timestamp) > clock - RetentionSeconds)

\* The for loop visiting the registry from its last component to its first.
RECURSIVE CheckComponentsReversed(_, _, _, _)
CheckComponentsReversed(m, i, current_status, clock) ==
    IF i > Len(RegistryOrder) THEN m
    ELSE CheckComponentsReversed(
             CheckComponent(m, RegistryOrder[Len(RegistryOrder) + 1 - i], current_status,
                            clock),
             i + 1, current_status, clock)

\* The locked section with the loop in that order.
CheckAllComponentsLockedReversed(m, ledger, clock) ==
    LET current_status == GetConnectionStatus(ledger, clock)
        m1 == CheckComponentsReversed(m, 1, current_status, clock)
    IN [m1 EXCEPT !.reg = CalculateMetrics(m1.reg, clock),
                  !.events = CleanHistory(m1.events, clock)]

\* The section of _check_all_components that runs under self._lock.
CheckAllComponentsLocked(m, ledger, clock) ==
    LET current_status == GetConnectionStatus(ledger, clock)
        m1 == CheckComponents(m, 1, current_status, clock)
    IN [m1 EXCEPT !.reg = CalculateMetrics(m1.reg, clock),
                  !.events = CleanHistory(m1.events, clock)]

\* The status dict _store_status_snapshot builds from the registry.
StatusSnapshot(reg, clock) ==
    [timestamp |-> IsoFormat(clock),
     components |-> [c \in DOMAIN reg |->
                        [id |-> c,
                         name |-> reg[c].name,
                         type |-> reg[c].type,
                         state |-> reg[c].state,
                         message |-> reg[c].message,
                         last_seen |-> IF reg[c].last_seen = << >> THEN << >>
                                       ELSE <<IsoFormat(reg[c].last_seen[1])>>,
                         uptime_percentage |-> reg[c].uptime_percentage,
                         critical |-> reg[c].critical]]]

\* database.store_connection_status called with the positional arguments
\* args.  The function is defined as store_connection_status(conn,
\* status_data) under @with_connection, whose wrapper calls it with a
\* connection of its own in front of the caller's arguments: with any number
\* of arguments but one the call raises TypeError, which the wrapper re-raises
\* after the rollback, and no row is inserted.
StoreConnectionStatus(rows, args) ==
    IF 1 + Len(args) = 2 THEN Append(rows, args[Len(args)]) ELSE rows

\* _store_status_snapshot(): it passes database.get_db_connection() and the
\* status dict, and catches and logs whatever the call raises.
StoreStatusSnapshot(rows, reg, clock) ==
    StoreConnectionStatus(rows, <<"conn", StatusSnapshot(reg, clock)>>)

----------------------------------------------------------------------------
(* connection_monitor.py: lifecycle.  Each method runs under self._lock and   *)
(* is one step; last_call holds the method and the value it returned.         *)

Returned(op, ret) ==
    /\ last_call' = <<[op |-> op, ret |-> ret]>>
    /\ status_result' = << >>

\* A monitoring-loop thread: where it is in _monitoring_loop and when its
\* sleep ends (0 when it is not sleeping).
NewLoop == [pc |-> "while", wake |-> 0]

\* start() without its guard: it starts a thread whatever the state is.
StartUnguarded ==
    /\ Len(loops) < MaxThreads
    /\ Returned("start", TRUE)
    /\ monitor_state' = MONITOR_STATE_ACTIVE
    /\ loops' = Append(loops, NewLoop)
    /\ monitor_thread' = <<Len(loops) + 1>>
    /\ UNCHANGED <<timeouts, serviceVars, ioVars, now, ledgerVars, tickVars, snapshots>>

\* start()
Start ==
    /\ monitor_lock = << >>
    /\ IF monitor_state # MONITOR_STATE_STOPPED
       THEN /\ Returned("start", FALSE)
            /\ UNCHANGED <<timeouts, serviceVars, ioVars, now, ledgerVars, lifecycleVars, loops, tickVars, snapshots>>
       ELSE /\ Len(loops) < MaxThreads
            /\ Returned("start", TRUE)
            /\ monitor_state' = MONITOR_STATE_ACTIVE
            /\ loops' = Append(loops, NewLoop)
            /\ monitor_thread' = <<Len(loops) + 1>>
            /\ UNCHANGED <<timeouts, serviceVars, ioVars, now, ledgerVars, tickVars, snapshots>>

\* stop()
Stop ==
    /\ monitor_lock = << >>
    /\ IF monitor_state = MONITOR_STATE_STOPPED
       THEN /\ Returned("stop", FALSE)
            /\ UNCHANGED <<timeouts, serviceVars, ioVars, now, ledgerVars, lifecycleVars, loops, tickVars, snapshots>>
       ELSE /\ Returned("stop", TRUE)
            /\ monitor_state' = MONITOR_STATE_STOPPED
            /\ monitor_thread' = << >>
            /\ UNCHANGED <<timeouts, serviceVars, ioVars, now, ledgerVars, loops, tickVars, snapshots>>

\* pause()
Pause ==
    /\ monitor_lock = << >>
    /\ IF monitor_state # MONITOR_STATE_ACTIVE
       THEN /\ Returned("pause", FALSE)
            /\ UNCHANGED <<timeouts, serviceVars, ioVars, now, ledgerVars, lifecycleVars, loops, tickVars, snapshots>>
       ELSE /\ Returned("pause", TRUE)
            /\ monitor_state' = MONITOR_STATE_PAUSED
            /\ UNCHANGED <<timeouts, serviceVars, ioVars, now, ledgerVars, monitor_thread, loops, tickVars, snapshots>>

\* resume() without its guard: it makes the monitor active whatever the state.
ResumeUnguarded ==
    /\ Returned("resume", TRUE)
    /\ monitor_state' = MONITOR_STATE_ACTIVE
    /\ UNCHANGED <<timeouts, serviceVars, ioVars, now, ledgerVars, monitor_thread, loops, tickVars, snapshots>>

\* resume()
Resume ==
    /\ monitor_lock = << >>
    /\ IF monitor_state # MONITOR_STATE_PAUSED
       THEN /\ Returned("resume", FALSE)
            /\ UNCHANGED <<timeouts, serviceVars, ioVars, now, ledgerVars, lifecycleVars, loops, tickVars, snapshots>>
       ELSE /\ Returned("resume", TRUE)
            /\ monitor_state' = MONITOR_STATE_ACTIVE
            /\ UNCHANGED <<timeouts, serviceVars, ioVars, now, ledgerVars, monitor_thread, loops, tickVars, snapshots>>

----------------------------------------------------------------------------
(* connection_monitor.py: _monitoring_loop, one thread t *)

\* time.sleep(self._check_interval) begins.
Sleeping(loop) == [loop EXCEPT !.pc = "sleep", !.wake = now + CONNECTION_CHECK_INTERVAL]

\* The while test and the if test on self._state (read without the lock): the
\* thread returns when stopped, goes on to the tick when active, and sleeps
\* when paused.
LoopTest(t) ==
    /\ loops[t].pc = "while"
    /\ loops' = [loops EXCEPT ![t] =
                    IF monitor_state = MONITOR_STATE_STOPPED THEN [@ EXCEPT !.pc = "done"]
                    ELSE IF monitor_state = MONITOR_STATE_ACTIVE
                         THEN [@ EXCEPT !.pc = "tick"]
                         ELSE Sleeping(@)]
    /\ NoReturn
    /\ UNCHANGED <<timeouts, serviceVars, ioVars, now, ledgerVars, lifecycleVars, tickVars, snapshots>>

\* _check_all_components(): the pass over the registry under self._lock and,
\* when a state changed, _store_status_snapshot() after the lock is released.
\* datetime.now() is read once for the step.
Tick(t) ==
    /\ loops[t].pc = "tick"
    /\ monitor_lock = << >>
    /\ LET m == CheckAllComponentsLocked(
                    [reg |-> component_registry, events |-> event_history,
                     last_notif |-> last_notification_time, notifs |-> notifications,
                     plog |-> policy_log, changed |-> FALSE, db |-> database],
                    component_last_activity, now)
       IN /\ component_registry' = m.reg
          /\ event_history' = m.events
          /\ last_notification_time' = m.last_notif
          /\ notifications' = m.notifs
          /\ policy_log' = m.plog
          /\ database' = m.db
          /\ snapshots' = IF m.changed
                          THEN StoreStatusSnapshot(snapshots, m.reg, now)
                          ELSE snapshots
    /\ loops' = [loops EXCEPT ![t] = Sleeping(@)]
    /\ NoReturn
    /\ UNCHANGED <<timeouts, serviceVars, monitor_lock, ledger_lock, last_notification, now, ledgerVars,
                   lifecycleVars>>

\* _check_all_components() raising while it processes component bad: nothing
\* in it catches, so the with block releases the lock and the exception
\* reaches the except clause of _monitoring_loop, past _calculate_metrics,
\* _clean_history, _store_status_snapshot and time.sleep.  (The model lets a
\* tick raise while every consecutive_failures is below MaxFailures.)
TickRaises(t, bad) ==
    /\ loops[t].pc = "tick"
    /\ monitor_lock = << >>
    /\ \A c \in ComponentIds : component_registry[c].consecutive_failures < MaxFailures
    /\ LET m == CheckComponentsRaising(
                    [reg |-> component_registry, events |-> event_history,
                     last_notif |-> last_notification_time, notifs |-> notifications,
                     plog |-> policy_log, changed |-> FALSE, db |-> database],
                    1, bad, GetConnectionStatus(component_last_activity, now), now)
       IN /\ component_registry' = m.reg
          /\ event_history' = m.events
          /\ last_notification_time' = m.last_notif
          /\ notifications' = m.notifs
          /\ policy_log' = m.plog
          /\ database' = m.db
    /\ loops' = [loops EXCEPT ![t] = [@ EXCEPT !.pc = "except"]]
    /\ NoReturn
    /\ UNCHANGED <<timeouts, serviceVars, monitor_lock, ledger_lock, last_notification, now, ledgerVars,
                   lifecycleVars, snapshots>>

\* except Exception as e: the error is logged and the loop goes back to the
\* while test.
Except(t) ==
    /\ loops[t].pc = "except"
    /\ loops' = [loops EXCEPT ![t] = [@ EXCEPT !.pc = "while"]]
    /\ NoReturn
    /\ UNCHANGED <<timeouts, serviceVars, ioVars, now, ledgerVars, lifecycleVars, tickVars, snapshots>>

\* time.sleep returns.
Wake(t) ==
    /\ loops[t].pc = "sleep"
    /\ now >= loops[t].wake
    /\ loops' = [loops EXCEPT ![t] = [pc |-> "while", wake |-> 0]]
    /\ NoReturn
    /\ UNCHANGED <<timeouts, serviceVars, ioVars, now, ledgerVars, lifecycleVars, tickVars, snapshots>>

\* ConnectionMonitor.record_activity(component_id): a sensor id makes the call
\* record_component_activity("sensors", component_id), which takes one
\* argument and raises TypeError before anything is recorded.
RecordActivity(component_id) ==
    IF /\ component_id \in DOMAIN component_registry
       /\ component_registry[component_id].type # COMPONENT_TYPE_SENSOR
    THEN RecordComponentActivity(component_id)
    ELSE /\ NoReturn
         /\ UNCHANGED <<timeouts, serviceVars, ioVars, now, ledgerVars, lifecycleVars, loops, tickVars, snapshots>>

----------------------------------------------------------------------------
(* connection_monitor.py: get_system_health_summary *)

\* sum(1 for c in self._component_registry.values() if c["state"] == state)
CountState(reg, state) == Cardinality({c \in DOMAIN reg : reg[c].state = state})

\* get_system_health_summary testing only the critical-flagged components for
\* the critical verdict.
GetSystemHealthSummaryFlaggedOnly(reg) ==
    LET total_components == Cardinality(DOMAIN reg)
        connected_components == CountState(reg, CONNECTION_STATE_ONLINE)
        warning_components == CountState(reg, CONNECTION_STATE_WARNING)
        error_components == CountState(reg, CONNECTION_STATE_ERROR)
        critical_components_count == CountState(reg, CONNECTION_STATE_CRITICAL)
        unknown_components == CountState(reg, CONNECTION_STATE_UNKNOWN)
        critical_components == {c \in DOMAIN reg : reg[c].critical}
        critical_disconnected ==
            Cardinality({c \in critical_components :
                            reg[c].state \in {CONNECTION_STATE_ERROR,
                                              CONNECTION_STATE_CRITICAL}})
        overall_health ==
            IF critical_disconnected > 0 THEN "critical"
            ELSE IF error_components > 0 THEN "error"
            ELSE IF warning_components > 0 THEN "warning"
            ELSE IF unknown_components = total_components THEN "unknown"
            ELSE "healthy"
    IN [overall_health |-> overall_health,
        total_components |-> total_components,
        connected_components |-> connected_components,
        warning_components |-> warning_components,
        error_components |-> error_components,
        critical_components_count |-> critical_components_count,
        unknown_components |-> unknown_components,
        critical_components |-> Cardinality(critical_components),
        critical_disconnected |-> critical_disconnected]

\* get_system_health_summary(), without the timestamp and the average uptime.
GetSystemHealthSummary(reg) ==
    LET total_components == Cardinality(DOMAIN reg)
        connected_components == CountState(reg, CONNECTION_STATE_ONLINE)
        warning_components == CountState(reg, CONNECTION_STATE_WARNING)
        error_components == CountState(reg, CONNECTION_STATE_ERROR)
        critical_components_count == CountState(reg, CONNECTION_STATE_CRITICAL)
        unknown_components == CountState(reg, CONNECTION_STATE_UNKNOWN)
        critical_components == {c \in DOMAIN reg : reg[c].critical}
        critical_disconnected ==
            Cardinality({c \in critical_components :
                            reg[c].state \in {CONNECTION_STATE_ERROR,
                                              CONNECTION_STATE_CRITICAL}})
        overall_health ==
            IF critical_disconnected > 0 \/ critical_components_count > 0 THEN "critical"
            ELSE IF error_components > 0 THEN "error"
            ELSE IF warning_components > 0 THEN "warning"
            ELSE IF unknown_components = total_components THEN "unknown"
            ELSE "healthy"
    IN [overall_health |-> overall_health,
        total_components |-> total_components,
        connected_components |-> connected_components,
        warning_components |-> warning_components,
        error_components |-> error_components,
        critical_components_count |-> critical_components_count,
        unknown_components |-> unknown_components,
        critical_components |-> Cardinality(critical_components),
        critical_disconnected |-> critical_disconnected]

----------------------------------------------------------------------------
(* connection_monitor.py: _check_all_components statement by statement.  The *)
(* frame in monitor_lock holds the locals of the call that is inside the     *)
(* with block: the loop index i, previous_state once the component's state   *)
(* has been updated to a different one, status_changed and current_status.   *)

\* The monitor's memory as the operators of the tick take it.
TickMemory(changed) ==
    [reg |-> component_registry, events |-> event_history,
     last_notif |-> last_notification_time, notifs |-> notifications,
     plog |-> policy_log, changed |-> changed, db |-> database]

\* Loop thread t is inside the with self._lock block of the tick.
HoldsLock(t) == monitor_lock # << >> /\ monitor_lock[1].owner = t

\* with self._lock: entered, and current_status = get_connection_status().
TickAcquire(t) ==
    /\ loops[t].pc = "tick"
    /\ monitor_lock = << >>
    /\ monitor_lock' = <<[owner |-> t, i |-> 1, previous_state |-> << >>,
                          status_changed |-> FALSE,
                          current_status |->
                              GetConnectionStatus(component_last_activity, now)]>>
    /\ NoReturn
    /\ UNCHANGED <<timeouts, serviceVars, now, ledgerVars, lifecycleVars, loops, tickVars, snapshots,
                   database, ledger_lock, last_notification>>

\* The loop body up to the test for a state change: previous_state is read
\* and _update_component_status runs when the component has a status entry.
TickUpdate(t) ==
    /\ HoldsLock(t)
    /\ monitor_lock[1].previous_state = << >>
    /\ monitor_lock[1].i <= Len(RegistryOrder)
    /\ LET frame == monitor_lock[1]
           component_id == RegistryOrder[frame.i]
           component == component_registry[component_id]
           found == IF component.type = COMPONENT_TYPE_SENSOR
                    THEN component_id \in DOMAIN frame.current_status.sensors
                    ELSE component_id \in DOMAIN frame.current_status.components
           status_data == IF component.type = COMPONENT_TYPE_SENSOR
                          THEN frame.current_status.sensors[component_id]
                          ELSE frame.current_status.components[component_id]
           updated == IF found THEN UpdateComponentStatus(component, status_data, now)
                      ELSE component
       IN /\ component_registry' = [component_registry EXCEPT ![component_id] = updated]
          /\ monitor_lock' =
                 IF updated.state # component.state
                 THEN <<[frame EXCEPT !.previous_state = <<component.state>>,
                                      !.status_changed = TRUE]>>
                 ELSE <<[frame EXCEPT !.i = @ + 1]>>
    /\ NoReturn
    /\ UNCHANGED <<timeouts, serviceVars, now, ledgerVars, lifecycleVars, loops, event_history,
                   last_notification_time, notifications, policy_log, snapshots, database,
                   ledger_lock, last_notification>>

\* The same step with _send_notification letting the failure of
\* database.add_notification out: the exception passes the assignment of
\* _last_notification_time and the rest of the for loop, ends the with block
\* and reaches the except clause of _monitoring_loop.
TickHandlePropagating(t) ==
    /\ HoldsLock(t)
    /\ monitor_lock[1].previous_state # << >>
    /\ LET frame == monitor_lock[1]
           component_id == RegistryOrder[frame.i]
           m == HandleStateChange(TickMemory(TRUE), component_id, frame.previous_state[1],
                                  component_registry[component_id].state, now)
           raised == Len(m.notifs) > Len(notifications) /\ ~database.available
       IN /\ component_registry' = m.reg
          /\ event_history' = m.events
          /\ last_notification_time' = IF raised THEN last_notification_time
                                       ELSE m.last_notif
          /\ notifications' = m.notifs
          /\ policy_log' = m.plog
          /\ database' = m.db
          /\ monitor_lock' = IF raised THEN << >>
                             ELSE <<[frame EXCEPT !.previous_state = << >>, !.i = @ + 1]>>
          /\ loops' = IF raised THEN [loops EXCEPT ![t] = [@ EXCEPT !.pc = "except"]]
                      ELSE loops
    /\ NoReturn
    /\ UNCHANGED <<timeouts, serviceVars, now, ledgerVars, lifecycleVars, snapshots, ledger_lock,
                   last_notification>>

\* self._handle_state_change(component_id, previous_state, component["state"])
\* and the step to the next component.
TickHandle(t) ==
    /\ HoldsLock(t)
    /\ monitor_lock[1].previous_state # << >>
    /\ LET frame == monitor_lock[1]
           component_id == RegistryOrder[frame.i]
           m == HandleStateChange(TickMemory(TRUE), component_id, frame.previous_state[1],
                                  component_registry[component_id].state, now)
       IN /\ component_registry' = m.reg
          /\ event_history' = m.events
          /\ last_notification_time' = m.last_notif
          /\ notifications' = m.notifs
          /\ policy_log' = m.plog
          /\ database' = m.db
          /\ monitor_lock' = <<[frame EXCEPT !.previous_state = << >>, !.i = @ + 1]>>
    /\ NoReturn
    /\ UNCHANGED <<timeouts, serviceVars, now, ledgerVars, lifecycleVars, loops, snapshots, ledger_lock,
                   last_notification>>

\* After the for loop: _calculate_metrics(), _clean_history(), and the end of
\* the with block.  The thread goes on to _store_status_snapshot() when
\* status_changed, and to time.sleep otherwise.
TickRelease(t) ==
    /\ HoldsLock(t)
    /\ monitor_lock[1].previous_state = << >>
    /\ monitor_lock[1].i > Len(RegistryOrder)
    /\ component_registry' = CalculateMetrics(component_registry, now)
    /\ event_history' = CleanHistory(event_history, now)
    /\ loops' = [loops EXCEPT ![t] = IF monitor_lock[1].status_changed
                                     THEN [@ EXCEPT !.pc = "store"]
                                     ELSE Sleeping(@)]
    /\ monitor_lock' = << >>
    /\ NoReturn
    /\ UNCHANGED <<timeouts, serviceVars, now, ledgerVars, lifecycleVars, last_notification_time,
                   notifications, policy_log, snapshots, database, ledger_lock,
                   last_notification>>

\* _store_status_snapshot(), after the lock is released: the status dict is
\* built from the registry as it is now, without the lock, and written.
TickStore(t) ==
    /\ loops[t].pc = "store"
    /\ snapshots' = StoreStatusSnapshot(snapshots, component_registry, now)
    /\ loops' = [loops EXCEPT ![t] = Sleeping(@)]
    /\ NoReturn
    /\ UNCHANGED <<timeouts, serviceVars, now, ledgerVars, lifecycleVars, tickVars, ioVars>>

----------------------------------------------------------------------------
(* connection_monitor.py: the query methods.  Each runs under self._lock and *)
(* is one step; last_call holds the method and the value it returned.        *)

\* The dict get_component_status and get_all_component_status build for one
\* component.
ComponentView(reg, component_id) ==
    [id |-> component_id,
     name |-> reg[component_id].name,
     type |-> reg[component_id].type,
     state |-> reg[component_id].state,
     message |-> reg[component_id].message,
     last_seen |-> IF reg[component_id].last_seen = << >> THEN << >>
                   ELSE <<IsoFormat(reg[component_id].last_seen[1])>>,
     uptime_percentage |-> reg[component_id].uptime_percentage,
     critical |-> reg[component_id].critical,
     consecutive_failures |-> reg[component_id].consecutive_failures]

\* A query that returns ret and changes nothing.
QueryReturns(op, ret) ==
    /\ Returned(op, ret)
    /\ UNCHANGED <<timeouts, serviceVars, now, ledgerVars, lifecycleVars, loops, tickVars, snapshots, ioVars>>

\* get_component_status(component_id) reading the registry without the lock.
MonitorGetComponentStatusUnlocked(component_id) ==
    QueryReturns("get_component_status",
                 IF component_id \in DOMAIN component_registry
                 THEN <<ComponentView(component_registry, component_id)>>
                 ELSE << >>)

\* ConnectionMonitor.get_component_status(component_id)
MonitorGetComponentStatus(component_id) ==
    /\ monitor_lock = << >>
    /\ QueryReturns("get_component_status",
                    IF component_id \in DOMAIN component_registry
                    THEN <<ComponentView(component_registry, component_id)>>
                    ELSE << >>)

\* ConnectionMonitor.get_all_component_status()
MonitorGetAllComponentStatus ==
    /\ monitor_lock = << >>
    /\ QueryReturns("get_all_component_status",
                    [c \in DOMAIN component_registry |->
                        ComponentView(component_registry, c)])

\* sorted(self._event_history, key=timestamp, reverse=True): a stable sort,
\* newest first.
RECURSIVE InsertNewestFirst(_, _)
InsertNewestFirst(sorted, e) ==
    IF sorted = << >> THEN <<e>>
    ELSE IF FromIsoFormat(sorted[Len(sorted)].timestamp) >= FromIsoFormat(e.timestamp)
    THEN Append(sorted, e)
    ELSE Append(InsertNewestFirst(SubSeq(sorted, 1, Len(sorted) - 1), e),
                sorted[Len(sorted)])

RECURSIVE SortNewestFirst(_)
SortNewestFirst(events) ==
    IF events = << >> THEN << >>
    ELSE InsertNewestFirst(SortNewestFirst(SubSeq(events, 1, Len(events) - 1)),
                           events[Len(events)])

\* get_recent_events(limit)
GetRecentEvents(limit) ==
    /\ monitor_lock = << >>
    /\ LET sorted_events == SortNewestFirst(event_history)
       IN QueryReturns("get_recent_events",
                       SubSeq(sorted_events, 1,
                              IF limit < Len(sorted_events) THEN limit
                              ELSE Len(sorted_events)))

\* A caller invokes get_system_health_summary().
CallGetSystemHealthSummary ==
    /\ monitor_lock = << >>
    /\ QueryReturns("get_system_health_summary", GetSystemHealthSummary(component_registry))

\* The database file becomes unwritable (locked, disk full, removed) or
\* writable again.
DatabaseAvailability(available) ==
    /\ database.available # available
    /\ database' = [database EXCEPT !.available = available]
    /\ NoReturn
    /\ UNCHANGED <<timeouts, serviceVars, now, ledgerVars, lifecycleVars, loops, tickVars, snapshots,
                   monitor_lock, ledger_lock, last_notification>>

----------------------------------------------------------------------------
(* connection_status.py: check_components, the ledger's own checker thread *)

\* _component_metadata, the entries of the keys the model records.
ComponentMetadata ==
    [plant_node_node1 |-> [name |-> "Plant Node 1", type |-> "hardware"]]

\* config.ENABLE_EMAIL_ALERTS: False unless the SMTP settings are all given.
ENABLE_EMAIL_ALERTS == FALSE

\* The keys of _component_last_activity in the order the for loop visits
\* them.  (The dict keeps insertion order; the model keeps one order.)
LedgerOrder == <<"main_hub", "camera", "moisture", "plant_node_node1">>

\* The if/elif chain of check_components: the new state, << >> for None.
CheckNewState(time_since_last_activity) ==
    IF time_since_last_activity >= timeouts.critical THEN <<CONNECTION_STATE_CRITICAL>>
    ELSE IF time_since_last_activity >= timeouts.error THEN <<CONNECTION_STATE_ERROR>>
    ELSE IF time_since_last_activity >= timeouts.warning THEN <<CONNECTION_STATE_WARNING>>
    ELSE << >>

\* The body of the for loop of check_components without its cooldown test.
CheckLedgerEntryNoCooldown(s, component_id, ledger, clock) ==
    LET last_activity == ledger[component_id]
        time_since_last_activity == clock - last_activity
        known == component_id \in DOMAIN ComponentMetadata
        component_name == IF known THEN ComponentMetadata[component_id].name
                          ELSE component_id
        component_type == IF known THEN ComponentMetadata[component_id].type
                          ELSE "unknown"
        previous_state == IF component_id \in DOMAIN s.status
                          THEN s.status[component_id].status
                          ELSE CONNECTION_STATE_UNKNOWN
        new_state == CheckNewState(time_since_last_activity)
        message == StatusMessage(time_since_last_activity)
    IN IF new_state # << >> /\ new_state[1] # previous_state
       THEN [status |-> DictPut(s.status, component_id,
                                [status |-> new_state[1],
                                 last_activity |-> IsoFormat(last_activity),
                                 message |-> message]),
             last_notif |-> DictPut(s.last_notif, component_id, clock),
             changes |-> Append(s.changes,
                                [component_id |-> component_id,
                                 component_name |-> component_name,
                                 component_type |-> component_type,
                                 previous_state |-> previous_state,
                                 new_state |-> new_state[1],
                                 message |-> message,
                                 timestamp |-> IsoFormat(clock)])]
       ELSE s

\* The body of the for loop of check_components for one key, on the record
\* s = [status, last_notif, changes] of _component_status, _last_notification
\* and status_changes.
CheckLedgerEntry(s, component_id, ledger, clock) ==
    LET last_activity == ledger[component_id]
        time_since_last_activity == clock - last_activity
        known == component_id \in DOMAIN ComponentMetadata
        component_name == IF known THEN ComponentMetadata[component_id].name
                          ELSE component_id
        component_type == IF known THEN ComponentMetadata[component_id].type
                          ELSE "unknown"
        cooldown == /\ component_id \in DOMAIN s.last_notif
                    /\ clock - s.last_notif[component_id] < CONNECTION_NOTIFICATION_COOLDOWN
        previous_state == IF component_id \in DOMAIN s.status
                          THEN s.status[component_id].status
                          ELSE CONNECTION_STATE_UNKNOWN
        new_state == CheckNewState(time_since_last_activity)
        message == StatusMessage(time_since_last_activity)
    IN IF cooldown THEN s
       ELSE IF new_state # << >> /\ new_state[1] # previous_state
       THEN [status |-> DictPut(s.status, component_id,
                                [status |-> new_state[1],
                                 last_activity |-> IsoFormat(last_activity),
                                 message |-> message]),
             last_notif |-> DictPut(s.last_notif, component_id, clock),
             changes |-> Append(s.changes,
                                [component_id |-> component_id,
                                 component_name |-> component_name,
                                 component_type |-> component_type,
                                 previous_state |-> previous_state,
                                 new_state |-> new_state[1],
                                 message |-> message,
                                 timestamp |-> IsoFormat(clock)])]
       ELSE s

\* The for loop over _component_last_activity.items().
RECURSIVE CheckLedger(_, _, _, _)
CheckLedger(s, i, ledger, clock) ==
    IF i > Len(LedgerOrder) THEN s
    ELSE CheckLedger(IF LedgerOrder[i] \in DOMAIN ledger
                     THEN CheckLedgerEntry(s, LedgerOrder[i], ledger, clock)
                     ELSE s,
                     i + 1, ledger, clock)

\* The INSERTs of check_components for the status changes from the i-th on:
\* a ConnectionEvents row each, and a Notifications row for error and
\* critical.
RECURSIVE LogStatusChanges(_, _, _)
LogStatusChanges(db, changes, i) ==
    IF i > Len(changes) THEN db
    ELSE LET change == changes[i]
             db1 == [db EXCEPT !.ConnectionEvents =
                        Append(@, [timestamp |-> change.timestamp,
                                   component_id |-> change.component_id,
                                   component_name |-> change.component_name,
                                   component_type |-> change.component_type,
                                   previous_state |-> change.previous_state,
                                   new_state |-> change.new_state,
                                   message |-> change.message])]
             db2 == IF change.new_state \in {CONNECTION_STATE_ERROR,
                                             CONNECTION_STATE_CRITICAL}
                    THEN [db1 EXCEPT !.Notifications =
                             Append(@, [timestamp |-> change.timestamp,
                                        component_id |-> change.component_id,
                                        severity |-> IF change.new_state =
                                                        CONNECTION_STATE_CRITICAL
                                                     THEN "critical" ELSE "error",
                                        message |-> <<change.component_name,
                                                      change.new_state,
                                                      change.message>>])]
                    ELSE db1
         IN LogStatusChanges(db2, changes, i + 1)

\* check_components() from with _lock: to the end of the for loop.  With no
\* status change nothing is left to do and the lock is released; otherwise
\* the thread goes on, inside the with block, to the database.  (E-mail
\* alerts are off in the default configuration.)
CheckComponentsScan ==
    /\ ledger_lock = << >>
    /\ LET s == CheckLedger([status |-> component_status,
                             last_notif |-> last_notification,
                             changes |-> << >>],
                            1, component_last_activity, now)
       IN /\ component_status' = s.status
          /\ last_notification' = s.last_notif
          /\ ledger_lock' = IF s.changes = << >> THEN << >>
                            ELSE <<[status_changes |-> s.changes]>>
    /\ NoReturn
    /\ UNCHANGED <<timeouts, serviceVars, now, component_last_activity, records, lifecycleVars, loops,
                   tickVars, snapshots, database, monitor_lock>>

\* check_components() from "if status_changes:" on, still inside the with
\* block: the rows are inserted and committed one by one, or the failure is
\* caught and logged; then the lock is released.
CheckComponentsLog ==
    /\ ledger_lock # << >>
    /\ "status_changes" \in DOMAIN ledger_lock[1]
    /\ database' = IF database.available
                   THEN LogStatusChanges(database, ledger_lock[1].status_changes, 1)
                   ELSE database
    /\ ledger_lock' = << >>
    /\ NoReturn
    /\ UNCHANGED <<timeouts, serviceVars, now, ledgerVars, lifecycleVars, loops, tickVars, snapshots,
                   monitor_lock, last_notification>>

----------------------------------------------------------------------------
(* A device that reports on a fixed schedule *)

\* The main hub's next message is due now: the first at 0, the second half
\* a check interval after the tick at the warning threshold, the following
\* ones TIMEOUT_ERROR seconds after the last.
ReportDue ==
    IF "main_hub" \notin DOMAIN component_last_activity THEN now = 0
    ELSE IF component_last_activity["main_hub"] = 0
    THEN now = TIMEOUT_WARNING + CONNECTION_CHECK_INTERVAL \div 2
    ELSE now = component_last_activity["main_hub"] + TIMEOUT_ERROR

\* record_component_activity("main_hub") when the message is due.
DeviceReports ==
    /\ ReportDue
    /\ ledger_lock = << >>
    /\ component_last_activity' = DictPut(component_last_activity, "main_hub", now)
    /\ component_status' = DictPut(component_status, "main_hub",
                                   [status |-> CONNECTION_STATE_ONLINE,
                                    last_activity |-> IsoFormat(now),
                                    message |-> <<"Component is online">>])
    /\ NoReturn
    /\ UNCHANGED <<timeouts, serviceVars, ioVars, now, records, lifecycleVars, loops, tickVars, snapshots>>

\* Time passes to the next tick or message, once the message due now has
\* arrived.
AdvanceFlapping(t) ==
    /\ ~ReportDue
    /\ AdvanceWithin(FlapPoints, t)

\* The server starts the monitor at boot.
StartAtBoot ==
    /\ now = 0
    /\ Start

----------------------------------------------------------------------------
(* Specifications *)

\* The state after import and construction, but for the thresholds.
InitState ==
    /\ now = 0
    /\ component_last_activity = EmptyDict
    /\ component_status = EmptyDict
    /\ status_result = << >>
    /\ records = 0
    /\ monitor_state = MONITOR_STATE_STOPPED
    /\ monitor_thread = << >>
    /\ loops = << >>
    /\ component_registry = InitializeRegistry
    /\ event_history = << >>
    /\ last_notification_time = EmptyDict
    /\ notifications = << >>
    /\ policy_log = << >>
    /\ snapshots = << >>
    /\ database = [available |-> TRUE, ConnectionEvents |-> << >>, Notifications |-> << >>]
    /\ monitor_lock = << >>
    /\ ledger_lock = << >>
    /\ last_notification = EmptyDict
    /\ login_attempts = EmptyDict
    /\ session = EmptyDict
    /\ connected = FALSE
    /\ link = FALSE
    /\ reconnect_delay = MQTT_RECONNECT_DELAY_MIN
    /\ message_queue = << >>
    /\ published = << >>
    /\ mqtt_threads = [started |-> "no", reconnect |-> "none",
                       reconnect_thread_running |-> FALSE,
                       queue_processor_running |-> FALSE]
    /\ connection_pool = EmptyDict
    /\ last_connection_time = EmptyDict
    /\ db_threads = EmptyDict
    /\ last_call = << >>

Init ==
    /\ timeouts = DefaultTimeouts
    /\ InitState

\* The state after import and construction under any of the threshold
\* settings; ConnectionMonitor._load_configuration copies them as they are.
InitConfig ==
    /\ timeouts \in TimeoutChoices
    /\ InitState

\* The running monitor: start(), the loop thread and its ticks, the ledger
\* writers and the clock.
Next ==
    \/ \E t \in TimePoints : Advance(t)
    \/ \E k \in Keys : RecordComponentActivity(k)
    \/ \E c \in ComponentIds \cap Keys : RecordActivity(c)
    \/ Start
    \/ \E t \in 1..Len(loops) : LoopTest(t)
    \/ \E t \in 1..Len(loops) : Tick(t)
    \/ \E t \in 1..Len(loops) : Wake(t)

Spec == Init /\ [][Next]_vars

\* The lifecycle of the monitor: the four methods, the loop threads they
\* start and the clock, on a ledger nobody writes.
NextLifecycle ==
    \/ \E t \in TimePoints : Advance(t)
    \/ Start
    \/ Stop
    \/ Pause
    \/ Resume
    \/ \E t \in 1..Len(loops) : LoopTest(t)
    \/ \E t \in 1..Len(loops) : Tick(t)
    \/ \E t \in 1..Len(loops) : Wake(t)

SpecLifecycle == Init /\ [][NextLifecycle]_vars

\* The ledger and the classifier of connection_status.py alone.
NextStatus ==
    \/ \E t \in TimePoints : Advance(t)
    \/ \E k \in Keys \cup IngestionKeys : RecordComponentActivity(k)
    \/ \E k \in Keys \cup IngestionKeys : CallGetComponentStatus(k)

SpecStatus == Init /\ [][NextStatus]_vars

\* The ledger with its checker thread and a database that can fail.
NextLedger ==
    \/ \E t \in TimePoints : Advance(t)
    \/ \E k \in {"main_hub"} \cup IngestionKeys : RecordComponentActivity(k)
    \/ \E k \in {"main_hub"} \cup IngestionKeys : CallGetComponentStatus(k)
    \/ CheckComponentsScan
    \/ CheckComponentsLog
    \/ \E available \in BOOLEAN : DatabaseAvailability(available)

SpecLedger == Init /\ [][NextLedger]_vars

\* The running monitor when ticks can raise.
NextFaults ==
    \/ \E t \in ShortPoints : AdvanceShort(t)
    \/ \E k \in Keys : RecordComponentActivity(k)
    \/ Start
    \/ \E t \in 1..Len(loops) : LoopTest(t)
    \/ \E t \in 1..Len(loops) : Tick(t)
    \/ \E t \in 1..Len(loops) : \E bad \in ComponentIds : TickRaises(t, bad)
    \/ \E t \in 1..Len(loops) : Except(t)
    \/ \E t \in 1..Len(loops) : Wake(t)

SpecFaults == Init /\ [][NextFaults]_vars

\* The monitor started and stopped while components report.
NextShutdown ==
    \/ \E t \in ShortPoints : AdvanceShort(t)
    \/ \E k \in Keys : RecordComponentActivity(k)
    \/ Start
    \/ Stop
    \/ \E t \in 1..Len(loops) : LoopTest(t)
    \/ \E t \in 1..Len(loops) : Tick(t)
    \/ \E t \in 1..Len(loops) : Wake(t)

SpecShutdown == Init /\ [][NextShutdown]_vars

\* The running monitor with the tick taken statement by statement, the
\* queries, and a database that can fail.
NextLocking ==
    \/ \E t \in ShortPoints : AdvanceShort(t)
    \/ \E k \in {"main_hub", "camera"} : RecordComponentActivity(k)
    \/ Start
    \/ \E t \in 1..Len(loops) : LoopTest(t)
    \/ \E t \in 1..Len(loops) : TickAcquire(t)
    \/ \E t \in 1..Len(loops) : TickUpdate(t)
    \/ \E t \in 1..Len(loops) : TickHandle(t)
    \/ \E t \in 1..Len(loops) : TickRelease(t)
    \/ \E t \in 1..Len(loops) : TickStore(t)
    \/ \E t \in 1..Len(loops) : Wake(t)
    \/ \E c \in {"main_hub", "camera"} : MonitorGetComponentStatus(c)
    \/ MonitorGetAllComponentStatus
    \/ \E limit \in {1, 50} : GetRecentEvents(limit)
    \/ CallGetSystemHealthSummary
    \/ \E available \in BOOLEAN : DatabaseAvailability(available)

SpecLocking == Init /\ [][NextLocking]_vars

\* The running monitor under any threshold setting.
NextConfig ==
    \/ \E t \in ShortPoints : AdvanceShort(t)
    \/ \E k \in Keys : RecordComponentActivity(k)
    \/ Start
    \/ \E t \in 1..Len(loops) : LoopTest(t)
    \/ \E t \in 1..Len(loops) : Tick(t)
    \/ \E t \in 1..Len(loops) : Wake(t)

SpecConfig == InitConfig /\ [][NextConfig]_vars

\* The running monitor fed by the MQTT handlers.
NextIngestion ==
    \/ \E t \in ShortPoints : AdvanceShort(t)
    \/ \E k \in DOMAIN DeviceComponent : RecordComponentActivity(k)
    \/ Start
    \/ \E t \in 1..Len(loops) : LoopTest(t)
    \/ \E t \in 1..Len(loops) : Tick(t)
    \/ \E t \in 1..Len(loops) : Wake(t)

SpecIngestion == Init /\ [][NextIngestion]_vars

\* The running monitor over more than a day.
NextUptime ==
    \/ \E t \in DayPoints : AdvanceDay(t)
    \/ \E k \in Keys : RecordComponentActivity(k)
    \/ Start
    \/ \E t \in 1..Len(loops) : LoopTest(t)
    \/ \E t \in 1..Len(loops) : Tick(t)
    \/ \E t \in 1..Len(loops) : Wake(t)

SpecUptime == Init /\ [][NextUptime]_vars

\* The running monitor over more than a week.
NextRetention ==
    \/ \E t \in WeekPoints : AdvanceWeek(t)
    \/ \E k \in Keys : RecordComponentActivity(k)
    \/ Start
    \/ \E t \in 1..Len(loops) : LoopTest(t)
    \/ \E t \in 1..Len(loops) : Tick(t)
    \/ \E t \in 1..Len(loops) : Wake(t)

SpecRetention == Init /\ [][NextRetention]_vars

\* The long run of the monitor over a main hub that goes stale and comes
\* back, tick after tick.
NextFlapping ==
    \/ \E t \in FlapPoints : AdvanceFlapping(t)
    \/ DeviceReports
    \/ StartAtBoot
    \/ \E t \in 1..Len(loops) : LoopTest(t)
    \/ \E t \in 1..Len(loops) : Tick(t)
    \/ \E t \in 1..Len(loops) : Wake(t)

SpecFlapping == Init /\ [][NextFlapping]_vars

----------------------------------------------------------------------------
(* C1: the classifier *)

\* C1: whatever was called before, get_component_status returns unknown for a
\* component with no recorded activity, and otherwise the state fixed by
\* elapsed = now - last_seen: online below TIMEOUT_WARNING, warning from
\* TIMEOUT_WARNING to below TIMEOUT_ERROR, error from TIMEOUT_ERROR to below
\* TIMEOUT_CRITICAL, critical from TIMEOUT_CRITICAL on.
C1_ClassifierTable ==
    status_result # << >> =>
        LET k == status_result[1].component_id
            r == status_result[1].result
        IN IF k \notin DOMAIN component_last_activity
           THEN r.status = CONNECTION_STATE_UNKNOWN /\ r.last_activity = << >>
           ELSE LET elapsed == now - component_last_activity[k]
                IN /\ r.time_since_last_activity = <<elapsed>>
                   /\ r.status \in ConnectionStates \ {CONNECTION_STATE_UNKNOWN}
                   /\ (r.status = CONNECTION_STATE_ONLINE) = (elapsed < TIMEOUT_WARNING)
                   /\ (r.status = CONNECTION_STATE_WARNING) =
                          (TIMEOUT_WARNING <= elapsed /\ elapsed < TIMEOUT_ERROR)
                   /\ (r.status = CONNECTION_STATE_ERROR) =
                          (TIMEOUT_ERROR <= elapsed /\ elapsed < TIMEOUT_CRITICAL)
                   /\ (r.status = CONNECTION_STATE_CRITICAL) =
                          (elapsed >= TIMEOUT_CRITICAL)

\* A call made exactly TIMEOUT_WARNING seconds after the activity, after an
\* earlier activity of another component.
C1_Witness ==
    /\ status_result # << >>
    /\ status_result[1].result.status = CONNECTION_STATE_WARNING
    /\ status_result[1].result.time_since_last_activity = <<TIMEOUT_WARNING>>
    /\ records = 2

----------------------------------------------------------------------------
(* C2, C3: the lifecycle *)

MonitorStates == {MONITOR_STATE_STOPPED, MONITOR_STATE_ACTIVE, MONITOR_STATE_PAUSED}

\* The edges of the lifecycle, each with the method that takes it.
LifecycleEdges ==
    {<<"start", MONITOR_STATE_STOPPED, MONITOR_STATE_ACTIVE>>,
     <<"pause", MONITOR_STATE_ACTIVE, MONITOR_STATE_PAUSED>>,
     <<"resume", MONITOR_STATE_PAUSED, MONITOR_STATE_ACTIVE>>,
     <<"stop", MONITOR_STATE_ACTIVE, MONITOR_STATE_STOPPED>>,
     <<"stop", MONITOR_STATE_PAUSED, MONITOR_STATE_STOPPED>>}

\* C2: the monitor state is always stopped, active or paused, and it changes
\* only along stopped->active (start), active->paused (pause), paused->active
\* (resume), active->stopped and paused->stopped (stop), in a step that is a
\* successful call of that method.
C2_LifecycleEdges ==
    /\ [](monitor_state \in MonitorStates)
    /\ [][monitor_state' # monitor_state =>
             /\ last_call' # << >>
             /\ last_call'[1].ret
             /\ <<last_call'[1].op, monitor_state, monitor_state'>> \in LifecycleEdges]_vars

\* The monitor is active again after start, pause and resume.
C2_Witness ==
    /\ last_call = <<[op |-> "resume", ret |-> TRUE]>>
    /\ monitor_state = MONITOR_STATE_ACTIVE

\* C3: every lifecycle call returns a boolean: start() returns True exactly
\* from stopped, stop() True exactly from active or paused, pause() True
\* exactly from active, resume() True exactly from paused; so a second start()
\* or a second stop() returns False; and a call that returns False leaves the
\* monitor state and the thread handle (and the loop threads) as they were.
C3_MisuseReturnsFalse ==
    [][last_call' # << >> =>
          LET op == last_call'[1].op
              ret == last_call'[1].ret
          IN /\ op = "start" => (ret = (monitor_state = MONITOR_STATE_STOPPED))
             /\ op = "stop" => (ret = (monitor_state # MONITOR_STATE_STOPPED))
             /\ op = "pause" => (ret = (monitor_state = MONITOR_STATE_ACTIVE))
             /\ op = "resume" => (ret = (monitor_state = MONITOR_STATE_PAUSED))
             /\ ~ret => UNCHANGED <<monitor_state, monitor_thread, loops>>
             /\ (op = "start" /\ ret) => monitor_state' = MONITOR_STATE_ACTIVE
             /\ (op = "stop" /\ ret) => monitor_state' = MONITOR_STATE_STOPPED]_vars

\* A second stop(): the monitor was started and stopped, and stop() has just
\* returned False.
C3_Witness ==
    /\ last_call = <<[op |-> "stop", ret |-> FALSE]>>
    /\ Len(loops) >= 1
    /\ monitor_state = MONITOR_STATE_STOPPED

----------------------------------------------------------------------------
(* C4 .. C9: transitions, events and the notification policy *)

\* The notifications of one component, in the order sent.
NotifsFor(notifs, c) == SelectSeq(notifs, LAMBDA n : n.component_id = c)

\* A policy call e found a notification of its own component less than
\* notification_cooldown seconds old.
OwnCooldown(e) ==
    \E j \in 1..e.sent_before :
        /\ notifications[j].component_id = e.component_id
        /\ e.timestamp - notifications[j].timestamp < CONNECTION_NOTIFICATION_COOLDOWN

Disconnected == {CONNECTION_STATE_WARNING, CONNECTION_STATE_ERROR,
                 CONNECTION_STATE_CRITICAL}

\* The severity the policy names for a transition, << >> for no notification.
ClaimedSeverity(previous_state, new_state, critical) ==
    CASE new_state = CONNECTION_STATE_ONLINE /\ previous_state \in Disconnected -> <<"info">>
      [] new_state = CONNECTION_STATE_WARNING /\ critical -> <<"warning">>
      [] new_state \in {CONNECTION_STATE_ERROR, CONNECTION_STATE_CRITICAL} /\ critical ->
             <<"error">>
      [] new_state \in {CONNECTION_STATE_ERROR, CONNECTION_STATE_CRITICAL} /\ ~critical ->
             <<"warning">>
      [] OTHER -> << >>

\* The components whose state a step changes.
ChangedIn ==
    {c \in ComponentIds : component_registry'[c].state # component_registry[c].state}

\* C4: in every step, each component whose state changes gets exactly one new
\* event, carrying its previous and its new state, and exactly one new
\* connection_history entry with the new state; a component whose state does
\* not change gets neither; and the events already in the history stay as they
\* were, in place (only the oldest may be evicted).
C4_OneEventPerTransition ==
    [][LET kept == Len(event_history') - Cardinality(ChangedIn)
           added == {i \in 1..Len(event_history') : i > kept}
       IN /\ kept >= 0
          /\ kept <= Len(event_history)
          /\ \A i \in 1..kept :
                 event_history'[i] = event_history[Len(event_history) - kept + i]
          /\ \A c \in ChangedIn :
                 /\ Cardinality({i \in added : event_history'[i].component_id = c}) = 1
                 /\ \A i \in added :
                        event_history'[i].component_id = c =>
                            /\ event_history'[i].previous_state = component_registry[c].state
                            /\ event_history'[i].new_state = component_registry'[c].state
          /\ \A c \in ComponentIds :
                 LET h == component_registry[c].connection_history
                     h2 == component_registry'[c].connection_history
                 IN IF c \in ChangedIn
                    THEN /\ Len(h2) = (IF Len(h) < HistoryCap THEN Len(h) + 1 ELSE HistoryCap)
                         /\ h2[Len(h2)].state = component_registry'[c].state
                         /\ \A i \in 1..(Len(h2) - 1) : h2[i] = h[Len(h) - (Len(h2) - 1) + i]
                    ELSE h2 = h]_vars

\* One tick has appended the events of two components, the first of which had
\* changed state in an earlier tick already.
C4_Witness ==
    /\ Len(event_history) >= 3
    /\ \E i \in 1..(Len(event_history) - 1) :
           /\ event_history[i].timestamp = event_history[i + 1].timestamp
           /\ event_history[i].component_id # event_history[i + 1].component_id
           /\ event_history[i].previous_state # CONNECTION_STATE_UNKNOWN

\* C5: a policy call outside the cooldown of its component sends info for a
\* reconnection (to online from warning, error or critical), warning for a
\* critical component going to warning, for error or critical error if the
\* component is critical and warning if not, and nothing in every other case.
C5_PolicyTable ==
    \A i \in 1..Len(policy_log) :
        LET e == policy_log[i]
        IN ~OwnCooldown(e) =>
              /\ e.severity = ClaimedSeverity(e.previous_state, e.new_state,
                                              component_registry[e.component_id].critical)
              /\ e.sent = (e.severity # << >>)
              /\ e.sent => /\ Len(notifications) > e.sent_before
                           /\ notifications[e.sent_before + 1].component_id = e.component_id
                           /\ <<notifications[e.sent_before + 1].severity>> = e.severity

\* The camera, which is not critical, went to warning without a notification
\* and then to error with a notification of severity warning.
C5_Witness ==
    /\ \E i \in 1..Len(policy_log) :
           /\ policy_log[i].component_id = "camera"
           /\ policy_log[i].new_state = CONNECTION_STATE_WARNING
           /\ ~policy_log[i].sent
    /\ \E i \in 1..Len(policy_log) :
           /\ policy_log[i].component_id = "camera"
           /\ policy_log[i].new_state = CONNECTION_STATE_ERROR
           /\ policy_log[i].severity = <<"warning">>

\* C6: a step in which a component keeps its state sends no notification for
\* it, however long it has been in that state; every notification belongs to
\* a policy call made for a transition between two different states.
C6_TransitionOnly ==
    /\ [][\A c \in ComponentIds :
              component_registry'[c].state = component_registry[c].state =>
                  NotifsFor(notifications', c) = NotifsFor(notifications, c)]_vars
    /\ [](\A i \in 1..Len(policy_log) :
              policy_log[i].previous_state # policy_log[i].new_state)

\* The hub, which is critical, was first seen in warning, has been found in
\* warning by a second tick, and has one notification.
C6_Witness ==
    /\ component_registry["main_hub"].state = CONNECTION_STATE_WARNING
    /\ component_registry["main_hub"].consecutive_failures >= 2
    /\ Len(component_registry["main_hub"].connection_history) = 1
    /\ Len(NotifsFor(notifications, "main_hub")) = 1
    /\ notifications[1].severity = "warning"

\* C7: two notifications of one component are at least notification_cooldown
\* seconds apart, whatever their severities; a policy call that finds its
\* component in cooldown sends nothing; each notification was sent by the
\* policy call of its own transition, at that transition's time; and the
\* cooldown of a component runs from its last notification sent, so a dropped
\* transition neither restarts nor extends it.
C7_Cooldown ==
    /\ \A i, j \in 1..Len(notifications) :
           (i < j /\ notifications[i].component_id = notifications[j].component_id) =>
               notifications[j].timestamp - notifications[i].timestamp >=
                   CONNECTION_NOTIFICATION_COOLDOWN
    /\ \A i \in 1..Len(policy_log) : OwnCooldown(policy_log[i]) => ~policy_log[i].sent
    /\ \A j \in 1..Len(notifications) :
           \E i \in 1..Len(policy_log) :
               /\ policy_log[i].sent
               /\ policy_log[i].sent_before = j - 1
               /\ policy_log[i].component_id = notifications[j].component_id
               /\ policy_log[i].timestamp = notifications[j].timestamp
    /\ Len(notifications) =
           Cardinality({i \in 1..Len(policy_log) : policy_log[i].sent})
    /\ \A c \in ComponentIds :
           LET own == NotifsFor(notifications, c)
           IN IF own = << >> THEN c \notin DOMAIN last_notification_time
              ELSE /\ c \in DOMAIN last_notification_time
                   /\ last_notification_time[c] = own[Len(own)].timestamp

\* A reconnection was dropped in cooldown, and the component's next transition
\* was notified once the cooldown begun by the first notification was over.
C7_Witness ==
    \E i, j \in 1..Len(policy_log) :
        /\ i < j
        /\ policy_log[i].component_id = policy_log[j].component_id
        /\ OwnCooldown(policy_log[i])
        /\ policy_log[i].new_state = CONNECTION_STATE_ONLINE
        /\ policy_log[i].previous_state \in Disconnected
        /\ policy_log[j].sent

\* C8: whether a policy call sends depends on the transition, the component's
\* criticality and the component's own earlier notifications only: it sends
\* exactly when the policy names a severity and no notification of the same
\* component is less than notification_cooldown seconds old.
C8_CooldownIsolation ==
    \A i \in 1..Len(policy_log) :
        LET e == policy_log[i]
        IN e.sent =
              (/\ ClaimedSeverity(e.previous_state, e.new_state,
                                  component_registry[e.component_id].critical) # << >>
               /\ ~OwnCooldown(e))

\* A notification was sent for one component less than notification_cooldown
\* seconds after a notification for another.
C8_Witness ==
    \E i \in 1..Len(policy_log) : \E j \in 1..Len(notifications) :
        /\ policy_log[i].sent
        /\ j <= policy_log[i].sent_before
        /\ notifications[j].component_id # policy_log[i].component_id
        /\ policy_log[i].timestamp - notifications[j].timestamp <
               CONNECTION_NOTIFICATION_COOLDOWN

\* C9 as stated: every critical->online transition sends an info notification.
C9_Original ==
    \A i \in 1..Len(policy_log) :
        (/\ policy_log[i].previous_state = CONNECTION_STATE_CRITICAL
         /\ policy_log[i].new_state = CONNECTION_STATE_ONLINE) =>
            policy_log[i].severity = <<"info">>

\* C9, amended: a critical->online transition leaves consecutive_failures at
\* 0; it sends exactly one notification, of severity info, unless a
\* notification of that component is less than notification_cooldown seconds
\* old, and then it sends none.
C9_ReconnectAmended ==
    /\ [][\A c \in ComponentIds :
              (/\ component_registry[c].state = CONNECTION_STATE_CRITICAL
               /\ component_registry'[c].state = CONNECTION_STATE_ONLINE) =>
                  /\ component_registry'[c].consecutive_failures = 0
                  /\ Len(NotifsFor(notifications', c)) <=
                         Len(NotifsFor(notifications, c)) + 1]_vars
    /\ [](\A i \in 1..Len(policy_log) :
              LET e == policy_log[i]
              IN (/\ e.previous_state = CONNECTION_STATE_CRITICAL
                  /\ e.new_state = CONNECTION_STATE_ONLINE) =>
                     /\ e.sent = ~OwnCooldown(e)
                     /\ e.sent => /\ e.severity = <<"info">>
                                  /\ notifications[e.sent_before + 1].component_id =
                                         e.component_id
                                  /\ notifications[e.sent_before + 1].severity = "info"
                                  /\ notifications[e.sent_before + 1].timestamp =
                                         e.timestamp)

\* A component came back from critical with an info notification and has
\* consecutive_failures 0.
C9_Witness ==
    \E i \in 1..Len(policy_log) :
        /\ policy_log[i].previous_state = CONNECTION_STATE_CRITICAL
        /\ policy_log[i].new_state = CONNECTION_STATE_ONLINE
        /\ policy_log[i].severity = <<"info">>
        /\ component_registry[policy_log[i].component_id].state = CONNECTION_STATE_ONLINE
        /\ component_registry[policy_log[i].component_id].consecutive_failures = 0

----------------------------------------------------------------------------
(* C10: the health summary *)

StateOf(c) == component_registry[c].state

\* C10: overall_health is critical if a component is in state critical or a
\* critical-flagged component is in error or critical; else error if a
\* component is in error; else warning if one is in warning; else unknown if
\* all are unknown; else healthy.  critical_disconnected is the number of
\* critical-flagged components in error or critical.
C10_HealthSummary ==
    LET summary == GetSystemHealthSummary(component_registry)
        flagged_down == {c \in ComponentIds :
                            /\ component_registry[c].critical
                            /\ StateOf(c) \in {CONNECTION_STATE_ERROR,
                                               CONNECTION_STATE_CRITICAL}}
        claimed ==
            CASE (\E c \in ComponentIds : StateOf(c) = CONNECTION_STATE_CRITICAL)
                 \/ flagged_down # {} -> "critical"
              [] \E c \in ComponentIds : StateOf(c) = CONNECTION_STATE_ERROR -> "error"
              [] \E c \in ComponentIds : StateOf(c) = CONNECTION_STATE_WARNING -> "warning"
              [] \A c \in ComponentIds : StateOf(c) = CONNECTION_STATE_UNKNOWN -> "unknown"
              [] OTHER -> "healthy"
    IN /\ summary.overall_health = claimed
       /\ summary.critical_disconnected = Cardinality(flagged_down)

\* Two critical-flagged components are disconnected at once.
C10_Witness ==
    /\ StateOf("main_hub") \in {CONNECTION_STATE_ERROR, CONNECTION_STATE_CRITICAL}
    /\ StateOf("moisture") \in {CONNECTION_STATE_ERROR, CONNECTION_STATE_CRITICAL}
    /\ GetSystemHealthSummary(component_registry).overall_health = "critical"
    /\ GetSystemHealthSummary(component_registry).critical_disconnected = 2

----------------------------------------------------------------------------
(* C11: the uptime percentage *)

\* No connection_history entry of component c, as the step leaves it, is
\* inside the 24 hours before the clock reading.
NoHistoryInWindow(c) ==
    \A i \in 1..Len(component_registry'[c].connection_history) :
        FromIsoFormat(component_registry'[c].connection_history[i].timestamp) <=
            now - MetricsWindowSeconds

\* C11: uptime_percentage, the fraction connected / total of 100, always has
\* 0 <= connected <= total and total > 0, that is, a value in [0, 100]; and a
\* step that leaves a component without a history entry inside the last 24
\* hours leaves its uptime_percentage as it was.
C11_UptimeRange ==
    /\ [](\A c \in ComponentIds :
              LET u == component_registry[c].uptime_percentage
              IN 0 <= u[1] /\ u[1] <= u[2] /\ u[2] > 0)
    /\ [][\A c \in ComponentIds :
              NoHistoryInWindow(c) =>
                  component_registry'[c].uptime_percentage =
                      component_registry[c].uptime_percentage]_vars

\* A tick has just run at a reading at which every history entry of the hub
\* is out of the window, and the hub's uptime is still the 300 of 1800 seconds
\* computed when it went critical.
C11_Witness ==
    /\ component_registry["main_hub"].uptime_percentage = <<1, 6>>
    /\ component_registry["main_hub"].connection_history # << >>
    /\ \A i \in 1..Len(component_registry["main_hub"].connection_history) :
           FromIsoFormat(component_registry["main_hub"].connection_history[i].timestamp) <=
               now - MetricsWindowSeconds
    /\ \E t \in 1..Len(loops) :
           loops[t].pc = "sleep" /\ loops[t].wake = now + CONNECTION_CHECK_INTERVAL

----------------------------------------------------------------------------
(* C12, C13: exceptions in a tick *)

\* The state a tick is to give component c: the state of its entry in the
\* status it reads, or the state it has when there is no entry.
ExpectedState(c) ==
    LET current_status == GetConnectionStatus(component_last_activity, now)
        entries == IF component_registry[c].type = COMPONENT_TYPE_SENSOR
                   THEN current_status.sensors
                   ELSE current_status.components
    IN IF c \in DOMAIN entries THEN entries[c].state ELSE component_registry[c].state

\* C12 as stated: a tick that raises while it processes one component still
\* gives every other component its state, leaves the failing one at its
\* previous state or at unknown, and still persists a snapshot when a state
\* changed.
C12_Original ==
    [][\A t \in 1..Len(loops) :
          (loops[t].pc = "tick" /\ loops'[t].pc = "except") =>
              /\ \E bad \in ComponentIds :
                     /\ component_registry'[bad].state \in
                            {component_registry[bad].state, CONNECTION_STATE_UNKNOWN}
                     /\ \A c \in ComponentIds \ {bad} :
                            component_registry'[c].state = ExpectedState(c)
              /\ ChangedIn # {} => Len(snapshots') = Len(snapshots) + 1]_vars

\* C13 as stated: a tick that raises does not end the loop thread, and the
\* thread comes to the while test again only out of a sleep of the check
\* interval that has ended.
C13_Original ==
    /\ [](\A t \in 1..Len(loops) :
              loops[t].pc = "done" => monitor_state = MONITOR_STATE_STOPPED)
    /\ [][\A t \in 1..Len(loops) :
              (loops[t].pc # "while" /\ loops'[t].pc = "while") =>
                  /\ loops[t].pc = "sleep"
                  /\ now >= loops[t].wake]_vars

----------------------------------------------------------------------------
(* C14, C15: stop() and the loop threads *)

\* C14 as stated: once stop() has returned True no tick runs: a step taken
\* while the monitor is stopped changes no registry entry and writes no event,
\* no notification and no snapshot.
C14_Original ==
    [][monitor_state = MONITOR_STATE_STOPPED =>
          UNCHANGED <<component_registry, event_history, notifications, snapshots>>]_vars

\* The loop threads that have not returned from _monitoring_loop.
LiveLoops == {t \in 1..Len(loops) : loops[t].pc # "done"}

\* C15 as stated: at most one monitoring loop thread exists at any moment, and
\* no two threads are about to run a tick at the same clock reading.
C15_Original ==
    /\ Cardinality(LiveLoops) <= 1
    /\ \A t1, t2 \in 1..Len(loops) :
           (loops[t1].pc = "tick" /\ loops[t2].pc = "tick") => t1 = t2

----------------------------------------------------------------------------
(* C16: threshold validation *)

\* timeout_warning < timeout_error < timeout_critical
ValidTimeouts ==
    timeouts.warning < timeouts.error /\ timeouts.error < timeouts.critical

\* C16 as stated: with thresholds that are not in the order warning < error <
\* critical the monitor never becomes active, no loop thread is started and
\* no tick classifies a component.
C16_Original ==
    ~ValidTimeouts =>
        /\ monitor_state = MONITOR_STATE_STOPPED
        /\ loops = << >>
        /\ \A c \in ComponentIds : component_registry[c].state = CONNECTION_STATE_UNKNOWN

----------------------------------------------------------------------------
(* C17: the state cache *)

\* A step in which a loop thread completes a tick.
TickCompletes == \E t \in 1..Len(loops) : loops[t].pc = "tick" /\ loops'[t].pc = "sleep"

----------------------------------------------------------------------------
(* C18: the ids of the ingestion path *)

\* C18 as stated: every key the ingestion records under is the id of a
\* registered component, and a tick that completes while a device's last
\* message is less than TIMEOUT_WARNING seconds old leaves the component of
\* that device online.
C18_Original ==
    /\ [](\A k \in DOMAIN component_last_activity : k \in DOMAIN component_registry)
    /\ [][TickCompletes =>
             \A k \in DOMAIN DeviceComponent :
                 (/\ k \in DOMAIN component_last_activity
                  /\ now - component_last_activity[k] < TIMEOUT_WARNING) =>
                     component_registry'[DeviceComponent[k]].state =
                         CONNECTION_STATE_ONLINE]_vars

----------------------------------------------------------------------------
(* C19: components never heard of *)

----------------------------------------------------------------------------
(* C20: the status snapshot *)

\* C20 as stated: a tick that completes adds exactly one row to the stored
\* snapshots when a component changed state in it, holding an entry for every
\* registered component, and adds none when no component changed.
C20_Original ==
    [][TickCompletes =>
          /\ Len(snapshots') = Len(snapshots) + (IF ChangedIn # {} THEN 1 ELSE 0)
          /\ \A i \in 1..Len(snapshots) : snapshots'[i] = snapshots[i]
          /\ ChangedIn # {} =>
                 DOMAIN snapshots'[Len(snapshots')].components = ComponentIds]_vars

----------------------------------------------------------------------------
(* C21: events and the ConnectionEvents table *)

\* The rows of the ConnectionEvents table that record event e.
RowsOfEvent(e) ==
    {i \in 1..Len(database.ConnectionEvents) :
        /\ database.ConnectionEvents[i].component_id = e.component_id
        /\ database.ConnectionEvents[i].previous_state = e.previous_state
        /\ database.ConnectionEvents[i].new_state = e.new_state}

\* C21 as stated: every event in the monitor's event history has also been
\* handed to the store, i.e. the ConnectionEvents table holds a row for it.
C21_Original ==
    \A i \in 1..Len(event_history) : RowsOfEvent(event_history[i]) # {}

----------------------------------------------------------------------------
(* C22: a failed write does not reach the tick *)

\* Loop thread t is about to run _handle_state_change for a component whose
\* transition makes the policy send a notification while the database cannot
\* be written.
NotificationWriteFails(t) ==
    /\ HoldsLock(t)
    /\ monitor_lock[1].previous_state # << >>
    /\ ~database.available
    /\ Len(notifications') > Len(notifications)

\* C22: when the notification write fails in _handle_state_change, no row is
\* written, yet the component keeps its new state, its history entry and its
\* event are appended, the cooldown is started, and the thread stays in the
\* with block at the next component; when the snapshot write fails after the
\* lock is released, the registry and the events are as the tick left them
\* and the thread goes to sleep.  No thread ever reaches the except clause.
C22_WriteFailureContained ==
    [][\A t \in 1..Len(loops) :
          /\ NotificationWriteFails(t) =>
                LET c == RegistryOrder[monitor_lock[1].i]
                    history == component_registry'[c].connection_history
                IN /\ database'.Notifications = database.Notifications
                   /\ component_registry'[c].state = component_registry[c].state
                   /\ Len(history) = Len(component_registry[c].connection_history) + 1
                   /\ history[Len(history)].state = component_registry[c].state
                   /\ Len(event_history') = Len(event_history) + 1
                   /\ event_history'[Len(event_history')].component_id = c
                   /\ event_history'[Len(event_history')].previous_state =
                          monitor_lock[1].previous_state[1]
                   /\ event_history'[Len(event_history')].new_state =
                          component_registry[c].state
                   /\ c \in DOMAIN last_notification_time'
                   /\ last_notification_time'[c] = now
                   /\ monitor_lock' # << >>
                   /\ monitor_lock'[1].owner = t
                   /\ monitor_lock'[1].i = monitor_lock[1].i + 1
                   /\ loops'[t].pc = "tick"
          /\ (loops[t].pc = "store" /\ loops'[t].pc # "store"
                /\ Len(snapshots') = Len(snapshots)) =>
                /\ component_registry' = component_registry
                /\ event_history' = event_history
                /\ loops'[t].pc = "sleep"
          /\ loops'[t].pc # "except"]_vars

\* A notification was sent while the database could not be written, the
\* snapshot write has failed too, and the thread of that tick sleeps, the
\* component being in its new state.
C22_Witness ==
    /\ Len(notifications) > Len(database.Notifications)
    /\ snapshots = << >>
    /\ \E t \in 1..Len(loops) : loops[t].pc = "sleep"
    /\ monitor_lock = << >>
    /\ \E i \in 1..Len(event_history) :
          /\ event_history[i].new_state = CONNECTION_STATE_WARNING
          /\ component_registry[event_history[i].component_id].state =
                 CONNECTION_STATE_WARNING

----------------------------------------------------------------------------
(* C23: the monitor's lock and database I/O *)

\* C23 as stated: the monitor's lock is not held in any step of the tick that
\* writes to the database (a row of the Notifications table, or the attempt
\* to store the snapshot).
C23_Original ==
    [][/\ database'.Notifications # database.Notifications => monitor_lock = << >>
       /\ (\E t \in 1..Len(loops) : loops[t].pc = "store" /\ loops'[t].pc # "store") =>
              monitor_lock = << >>]_vars

----------------------------------------------------------------------------
(* C24: what the queries see *)

\* The state the history of component c ends in.
SettledState(c) ==
    LET history == component_registry[c].connection_history
    IN IF history = << >> THEN CONNECTION_STATE_UNKNOWN
       ELSE history[Len(history)].state

\* The new_state of the last event of component c in a sequence of events
\* (oldest first), unknown when there is none.
RECURSIVE LastEventState(_, _, _)
LastEventState(events, c, i) ==
    IF i = 0 THEN CONNECTION_STATE_UNKNOWN
    ELSE IF events[i].component_id = c THEN events[i].new_state
    ELSE LastEventState(events, c, i - 1)

\* The view of a component a query returned is of a finished update.
WholeView(view) ==
    /\ view.state = SettledState(view.id)
    /\ view.state = LastEventState(event_history, view.id, Len(event_history))
    /\ view.state = CONNECTION_STATE_ONLINE => view.consecutive_failures = 0
    /\ view.state \in {CONNECTION_STATE_WARNING, CONNECTION_STATE_ERROR,
                       CONNECTION_STATE_CRITICAL} => view.consecutive_failures > 0

\* C24: whatever get_component_status, get_all_component_status,
\* get_recent_events and get_system_health_summary return, no component in it
\* shows a state whose history entry, event or consecutive_failures update is
\* still missing: each returned state is the one the component's history and
\* its last event end in, with the failure counter that belongs to it.
C24_QueriesSeeWholeUpdates ==
    last_call # << >> =>
        LET op == last_call[1].op
            ret == last_call[1].ret
        IN /\ (op = "get_component_status" /\ ret # << >>) => WholeView(ret[1])
           /\ op = "get_all_component_status" =>
                  \A c \in DOMAIN ret : WholeView(ret[c])
           /\ op = "get_recent_events" =>
                  \A i \in 1..Len(ret) :
                      \/ ret[i].new_state = component_registry[ret[i].component_id].state
                      \/ \E j \in 1..Len(event_history) :
                            /\ event_history[j].component_id = ret[i].component_id
                            /\ FromIsoFormat(event_history[j].timestamp) >=
                                   FromIsoFormat(ret[i].timestamp)
                            /\ event_history[j] # ret[i]
           /\ op = "get_system_health_summary" =>
                  /\ ret.connected_components =
                         Cardinality({c \in ComponentIds :
                                         SettledState(c) = CONNECTION_STATE_ONLINE})
                  /\ ret.warning_components =
                         Cardinality({c \in ComponentIds :
                                         SettledState(c) = CONNECTION_STATE_WARNING})
                  /\ ret.unknown_components =
                         Cardinality({c \in ComponentIds :
                                         SettledState(c) = CONNECTION_STATE_UNKNOWN})

\* get_component_status returned main_hub in warning with one failure counted,
\* after a tick that had made it online first.
C24_Witness ==
    /\ last_call # << >>
    /\ last_call[1].op = "get_component_status"
    /\ last_call[1].ret # << >>
    /\ last_call[1].ret[1].id = "main_hub"
    /\ last_call[1].ret[1].state = CONNECTION_STATE_WARNING
    /\ last_call[1].ret[1].consecutive_failures = 1
    /\ Len(event_history) = 2

----------------------------------------------------------------------------
(* C25: the ingestion writer and the ledger's lock *)

\* C25 as stated: record_component_activity waits only for the ledger's
\* lock, and the holders of that lock do no I/O: no step writes rows to the
\* database with the ledger's lock held.
C25_Original ==
    [][database'.ConnectionEvents # database.ConnectionEvents => ledger_lock = << >>]_vars

----------------------------------------------------------------------------
(* C26: the cap of the per-component history *)

\* The entry a completing tick appends to the history of component c: one
\* when the state of c changed in the tick, none otherwise.
AppendedIn(c) ==
    IF component_registry'[c].state # component_registry[c].state
    THEN <<[state |-> component_registry'[c].state, timestamp |-> IsoFormat(now),
            message |-> component_registry'[c].message]>>
    ELSE << >>

\* The last n elements of a sequence, all of it when it is not longer.
LastOf(seq, n) ==
    IF Len(seq) > n THEN SubSeq(seq, Len(seq) - n + 1, Len(seq)) ELSE seq

\* C26: when a tick completes, the connection_history of every component has
\* at most 100 entries, and it is the last 100 of what it held before the
\* tick followed by what the tick appended, in that order.
C26_HistoryCap ==
    [][TickCompletes =>
          \A c \in ComponentIds :
              /\ Len(component_registry'[c].connection_history) <= 100
              /\ component_registry'[c].connection_history =
                     LastOf(component_registry[c].connection_history \o AppendedIn(c),
                            100)]_vars

\* The history of the main hub holds 100 entries and no longer begins with
\* the first one it ever got (the change to online at 0).
C26_Witness ==
    /\ Len(component_registry["main_hub"].connection_history) = 100
    /\ FromIsoFormat(component_registry["main_hub"].connection_history[1].timestamp) > 0
    /\ \E t \in 1..Len(loops) : loops[t].pc = "sleep"

----------------------------------------------------------------------------
(* C27: the retention of the event history *)

\* Event e is less than 7 days old now.
YoungerThanWeek(e) == now - FromIsoFormat(e.timestamp) < 7 * 24 * 3600

\* C27: when a tick completes, no event in the event history is more than 7
\* days old, and every event that is less than 7 days old is still there: the
\* events the history held before the tick, in their order, followed by the
\* events of the components that changed in the tick.
C27_Retention ==
    [][TickCompletes =>
          LET n == Len(event_history') - Cardinality(ChangedIn)
          IN /\ n >= 0
             /\ \A i \in 1..Len(event_history') :
                    now - FromIsoFormat(event_history'[i].timestamp) <= 7 * 24 * 3600
             /\ SelectSeq(SubSeq(event_history', 1, n), YoungerThanWeek) =
                    SelectSeq(event_history, YoungerThanWeek)
             /\ \A i \in (n + 1)..Len(event_history') :
                    /\ FromIsoFormat(event_history'[i].timestamp) = now
                    /\ event_history'[i].component_id \in ChangedIn]_vars

\* More than 7 days after the start a tick has completed; the event of the
\* main hub's first change is gone from the event history (its history entry
\* is still in connection_history), and a younger event is still there.
C27_Witness ==
    /\ now > 7 * 24 * 3600
    /\ \E t \in 1..Len(loops) : loops[t].pc = "sleep"
    /\ component_registry["main_hub"].connection_history # << >>
    /\ FromIsoFormat(component_registry["main_hub"].connection_history[1].timestamp) = 0
    /\ event_history # << >>
    /\ \A i \in 1..Len(event_history) : FromIsoFormat(event_history[i].timestamp) > 0

----------------------------------------------------------------------------
(* C28: the order of the appends of one tick *)

\* The place of component c in the registry's iteration order.
RegistryIndex(c) == CHOOSE i \in 1..Len(RegistryOrder) : RegistryOrder[i] = c

\* C28: the events a completing tick appends to the event history, and the
\* notifications it sends, are in the order in which the registry lists
\* their components (main hub, plant node, camera, then the sensors), one
\* event per changed component.
C28_RegistryOrder ==
    [][TickCompletes =>
          LET n == Len(event_history') - Cardinality(ChangedIn)
              k == Len(notifications)
          IN /\ n >= 0
             /\ \A i \in (n + 1)..Len(event_history') :
                    \A j \in (i + 1)..Len(event_history') :
                        RegistryIndex(event_history'[i].component_id) <
                            RegistryIndex(event_history'[j].component_id)
             /\ {event_history'[i].component_id : i \in (n + 1)..Len(event_history')} =
                    ChangedIn
             /\ \A i \in (k + 1)..Len(notifications') :
                    \A j \in (i + 1)..Len(notifications') :
                        RegistryIndex(notifications'[i].component_id) <
                            RegistryIndex(notifications'[j].component_id)]_vars

\* One tick has appended the events of two components, the main hub's before
\* the camera's, and has sent a notification for each.
C28_Witness ==
    /\ Len(event_history) >= 2
    /\ event_history[Len(event_history) - 1].component_id = "main_hub"
    /\ event_history[Len(event_history)].component_id = "camera"
    /\ event_history[Len(event_history) - 1].timestamp =
           event_history[Len(event_history)].timestamp
    /\ Len(notifications) >= 2
    /\ notifications[Len(notifications) - 1].timestamp =
           notifications[Len(notifications)].timestamp
    /\ \E t \in 1..Len(loops) : loops[t].pc = "sleep"

----------------------------------------------------------------------------
(* C29: record_component_activity *)

\* The entries of key c in the two dicts of the ledger are the same before
\* and after the step.
LedgerEntryUnchanged(c) ==
    /\ (c \in DOMAIN component_last_activity') = (c \in DOMAIN component_last_activity)
    /\ c \in DOMAIN component_last_activity =>
           component_last_activity'[c] = component_last_activity[c]
    /\ (c \in DOMAIN component_status') = (c \in DOMAIN component_status)
    /\ c \in DOMAIN component_status => component_status'[c] = component_status[c]

\* C29: a step that records activity sets the entries of one component to
\* what a first record at this time creates (last activity now, status
\* online), whatever they were, and leaves the entries of every other
\* component as they are; a step that records nothing leaves the ledger's
\* activity times alone; and get_component_status for a recorded component
\* answers from the stored time: its last_activity, the time since it and the
\* classifier's state for that time.
C29_LastWriteWins ==
    /\ [][/\ records' = records + 1 =>
                \E c \in DOMAIN component_last_activity' :
                    /\ component_last_activity'[c] = now
                    /\ component_status'[c].status = CONNECTION_STATE_ONLINE
                    /\ component_status'[c].last_activity = IsoFormat(now)
                    /\ GetComponentStatus(component_last_activity', now', c).status =
                           CONNECTION_STATE_ONLINE
                    /\ \A k \in (DOMAIN component_last_activity' \cup
                                 DOMAIN component_last_activity) \ {c} :
                           LedgerEntryUnchanged(k)
          /\ records' = records => component_last_activity' = component_last_activity]_vars
    /\ [](status_result # << >> =>
             LET c == status_result[1].component_id
                 r == status_result[1].result
             IN c \in DOMAIN component_last_activity =>
                    /\ r.last_activity = <<component_last_activity[c]>>
                    /\ r.time_since_last_activity = <<now - component_last_activity[c]>>
                    /\ r.status = ClassifyElapsed(now - component_last_activity[c]))

\* The main hub was recorded twice, the second time at 300, no other
\* component was, and a get at 600 answers warning with 300 seconds since the
\* last activity.
C29_Witness ==
    /\ records = 2
    /\ DOMAIN component_last_activity = {"main_hub"}
    /\ component_last_activity["main_hub"] = 300
    /\ now = 600
    /\ status_result # << >>
    /\ status_result[1].component_id = "main_hub"
    /\ status_result[1].result.status = CONNECTION_STATE_WARNING

----------------------------------------------------------------------------
(* C30: the failure counter *)

\* C30: the consecutive_failures of a component whose state is online is 0;
\* a step in which the counter of a component grows is the step of a tick
\* that leaves the component in warning, error or critical, and it grows by
\* one; a step in which it shrinks leaves the component online with the
\* counter at 0; and a completing tick adds one to the counter of every
\* component it leaves in warning, error or critical.
C30_FailureCounter ==
    /\ [](\A c \in ComponentIds :
              component_registry[c].state = CONNECTION_STATE_ONLINE =>
                  component_registry[c].consecutive_failures = 0)
    /\ [][\A c \in ComponentIds :
              LET before == component_registry[c].consecutive_failures
                  after == component_registry'[c].consecutive_failures
                  failing == component_registry'[c].state \in
                                 {CONNECTION_STATE_WARNING, CONNECTION_STATE_ERROR,
                                  CONNECTION_STATE_CRITICAL}
              IN /\ after > before =>
                        /\ \E t \in 1..Len(loops) : loops[t].pc = "tick"
                        /\ failing
                        /\ after = before + 1
                 /\ after < before =>
                        /\ component_registry'[c].state = CONNECTION_STATE_ONLINE
                        /\ after = 0
                 /\ (TickCompletes /\ failing) => after = before + 1]_vars

\* The main hub is online again with its counter at 0 after two ticks in a
\* row had counted a failure (warning, then error).
C30_Witness ==
    /\ component_registry["main_hub"].state = CONNECTION_STATE_ONLINE
    /\ component_registry["main_hub"].consecutive_failures = 0
    /\ Len(component_registry["main_hub"].connection_history) >= 4
    /\ component_registry["main_hub"].connection_history[2].state =
           CONNECTION_STATE_WARNING
    /\ component_registry["main_hub"].connection_history[3].state =
           CONNECTION_STATE_ERROR

----------------------------------------------------------------------------
(* server.py: POST /api/v1/login *)

\* The monitor's and the ledger's variables, which the web endpoints, the
\* MQTT client and the connection pool leave alone.
monitorVars ==
    <<timeouts, ledgerVars, lifecycleVars, loops, tickVars, snapshots, ioVars>>

API_USERNAME == "admin"
API_PASSWORD == "floraseven"
LOGIN_MAX_ATTEMPTS == 5
LOGIN_ATTEMPT_WINDOW == 300
SESSION_TIMEOUT == 3600

\* The addresses the login requests come from, and the passwords they carry.
Addresses == {"10.0.0.1", "10.0.0.2"}
Passwords == {API_PASSWORD, "wrong"}

\* The clock readings of the login runs: the start, the last reading at which
\* a failure made at the start is inside the window, the first at which it has
\* left it, and one window later.
LoginPoints ==
    {0, LOGIN_ATTEMPT_WINDOW - 1, LOGIN_ATTEMPT_WINDOW, 2 * LOGIN_ATTEMPT_WINDOW}

AdvanceLogin(t) == AdvanceWithin(LoginPoints, t)

\* auth.check_auth.
CheckAuth(username, password) ==
    username = API_USERNAME /\ password = API_PASSWORD

\* api_response: the JSON body and the status code (the timestamp and the
\* request id are left out).  An absent data or error is << >>.
ApiResponse(data, message, success, status_code, error) ==
    [success |-> success, status_code |-> status_code, data |-> data,
     message |-> message, error |-> error]

\* handle_api_exception.
HandleApiException(e, default_message) ==
    ApiResponse(<< >>, default_message, FALSE, 500, <<e>>)

\* The pruning of login that keeps every attempt, whatever its age.
RecentAttemptsKeepAll(attempts, current_time) == attempts

\* [a for a in attempts if current_time - a < config.LOGIN_ATTEMPT_WINDOW]
RecentAttempts(attempts, current_time) ==
    SelectSeq(attempts, LAMBDA a : current_time - a < LOGIN_ATTEMPT_WINDOW)

\* (datetime.now() + config.SESSION_TIMEOUT).isoformat(): SESSION_TIMEOUT is
\* the int config.py reads, and datetime + int raises TypeError.
SessionExpires(clock) == [raised |-> "TypeError"]

\* login(), for a body that has a username and a password.  The session and
\* the attempts are written before the response is built, so they stay
\* written when building it raises.
Login(client_ip, username, password) ==
    LET tracked == client_ip \in DOMAIN login_attempts
        attempts == IF tracked THEN RecentAttempts(login_attempts[client_ip], now)
                    ELSE << >>
        checked == DictPut(login_attempts, client_ip, attempts)
        request == [client_ip |-> client_ip, username |-> username, password |-> password]
        answer(r) == Returned("login", [request |-> request, response |-> r])
    IN  /\ IF tracked /\ Len(attempts) >= LOGIN_MAX_ATTEMPTS
             THEN /\ answer(ApiResponse(<< >>, "Too many login attempts", FALSE, 429,
                                        <<"Please try again later">>))
                  /\ UNCHANGED <<login_attempts, session>>
           ELSE IF CheckAuth(username, password)
             THEN /\ session' = DictPut(session, client_ip,
                                        [logged_in |-> TRUE, username |-> username,
                                         login_time |-> IsoFormat(now)])
                  /\ login_attempts' = DictPut(checked, client_ip, << >>)
                  /\ LET expires == SessionExpires(now)
                     IN  IF "raised" \in DOMAIN expires
                           THEN answer(HandleApiException(expires.raised,
                                        "Login failed due to an unexpected error"))
                           ELSE answer(ApiResponse(
                                        <<[username |-> username,
                                           session_expires |-> expires]>>,
                                        "Login successful", TRUE, 200, << >>))
           ELSE /\ login_attempts' = DictPut(checked, client_ip, Append(attempts, now))
                /\ UNCHANGED session
                /\ answer(ApiResponse(<< >>, "Login failed", FALSE, 401,
                                      <<"Invalid username or password">>))
        /\ UNCHANGED <<monitorVars, mqttVars, poolVars, now>>

NextLogin ==
    \/ \E t \in LoginPoints : AdvanceLogin(t)
    \/ \E client_ip \in Addresses, password \in Passwords :
           Login(client_ip, API_USERNAME, password)

SpecLogin == Init /\ [][NextLogin]_vars

----------------------------------------------------------------------------
(* C31: the answers of the login endpoint *)

\* The login request the step has just answered, if it answered one.
LoginAnswered == last_call' # << >> /\ last_call'[1].op = "login" /\ last_call' # last_call

\* The number of failures an address has inside the window at a reading of
\* the clock, counted from a stored dict of lists.
FailuresIn(stored, clock, client_ip) ==
    IF client_ip \in DOMAIN stored
      THEN Cardinality({i \in 1..Len(stored[client_ip]) :
                          clock - stored[client_ip][i] < LOGIN_ATTEMPT_WINDOW})
      ELSE 0

FailuresInWindow(client_ip) == FailuresIn(login_attempts, now, client_ip)

\* C31, as stated: a login with valid credentials is answered 200 with success
\* true and the username and leaves the session marked logged_in; a login with
\* invalid credentials is answered 401 with success false and an error and
\* leaves the session as it was.  (Stated for addresses that are not rate
\* limited at the time.)
C31_LoginAnswers ==
    [][LoginAnswered /\ FailuresInWindow(last_call'[1].ret.request.client_ip)
                            < LOGIN_MAX_ATTEMPTS =>
         LET q == last_call'[1].ret.request
             r == last_call'[1].ret.response
         IN  IF q.username = API_USERNAME /\ q.password = API_PASSWORD
               THEN /\ r.status_code = 200
                    /\ r.success
                    /\ r.data # << >> /\ r.data[1].username = q.username
                    /\ session'[q.client_ip].logged_in
               ELSE /\ r.status_code = 401
                    /\ ~r.success
                    /\ r.error # << >>
                    /\ session' = session]_vars

----------------------------------------------------------------------------
(* C38: login rate limiting *)

\* C38: a login from an address is answered 429 exactly when the address has
\* LOGIN_MAX_ATTEMPTS or more failures inside the window, and then neither the
\* credentials nor anything else is looked at (no state changes, whatever the
\* password); otherwise a login with rejected credentials adds one failure
\* and one with accepted credentials empties the address's list; and a login
\* never changes the failures counted for another address.
C38_RateLimit ==
    [][LoginAnswered =>
         LET q == last_call'[1].ret.request
             r == last_call'[1].ret.response
             blocked == FailuresInWindow(q.client_ip) >= LOGIN_MAX_ATTEMPTS
         IN  /\ blocked <=> r.status_code = 429
             /\ blocked => login_attempts' = login_attempts /\ session' = session
             /\ ~blocked /\ q.password = API_PASSWORD =>
                    login_attempts'[q.client_ip] = << >>
             /\ ~blocked /\ q.password # API_PASSWORD =>
                    FailuresIn(login_attempts', now', q.client_ip) =
                        FailuresInWindow(q.client_ip) + 1
             /\ \A other \in Addresses \ {q.client_ip} :
                    FailuresIn(login_attempts', now', other) = FailuresInWindow(other)]_vars

\* A login with the right password is answered 429 at the last reading of the
\* window of five failures, while the other address, which has a failure of
\* its own, is not limited.
C38_Witness ==
    /\ last_call # << >> /\ last_call[1].op = "login"
    /\ LET q == last_call[1].ret.request
           r == last_call[1].ret.response
       IN  /\ r.status_code = 429
           /\ q.password = API_PASSWORD
           /\ now = LOGIN_ATTEMPT_WINDOW - 1
           /\ \E other \in Addresses \ {q.client_ip} :
                  FailuresInWindow(other) \in 1..(LOGIN_MAX_ATTEMPTS - 1)

----------------------------------------------------------------------------
(* logic.py: the condition index and the overall health *)

\* The largest sensor reading the model gives to the functions of logic.py.
MaxReading == 60

\* The thresholds of a parameter: the lower and the upper bounds tried.
MinChoices == {10, 20}
MaxChoices == {30, 50}

\* _calculate_parameter_status with a warning margin of a fifth of the range.
CalculateParameterStatusFifth(value, min_val, max_val) ==
    IF value < min_val \/ value > max_val THEN "critical"
    ELSE IF 5 * value < 5 * min_val + (max_val - min_val)
            \/ 5 * value > 5 * max_val - (max_val - min_val) THEN "warning"
    ELSE "optimal"

\* _calculate_parameter_status.  warning_min = min_val + (max_val - min_val) * 0.1
\* and warning_max = max_val - (max_val - min_val) * 0.1; the comparisons with
\* them are made here on both sides times ten, in whole numbers.
CalculateParameterStatus(value, min_val, max_val) ==
    IF value < min_val \/ value > max_val THEN "critical"
    ELSE IF 10 * value < 10 * min_val + (max_val - min_val)
            \/ 10 * value > 10 * max_val - (max_val - min_val) THEN "warning"
    ELSE "optimal"

\* A call of _calculate_parameter_status and what it returned.
CallCalculateParameterStatus(value, min_val, max_val) ==
    /\ Returned("_calculate_parameter_status",
                [value |-> value, min_val |-> min_val, max_val |-> max_val,
                 status |-> CalculateParameterStatus(value, min_val, max_val)])
    /\ UNCHANGED <<monitorVars, serviceVars, now>>

\* The parameters of the plant node and of the hub node, in the order
\* calculate_condition_index goes through them, which is the order of the
\* keys of the dict it builds.
PlantParameters == <<"moisture", "temp_soil", "light_lux", "ec_raw">>
HubParameters == <<"ph_water", "uv_ambient">>
ParameterOrder == PlantParameters \o HubParameters

SeqRange(seq) == {seq[i] : i \in 1..Len(seq)}

\* calculate_condition_index.  sensor_data has the readings of the plant node
\* under 'plant' and those of the hub node under 'hub'.
CalculateConditionIndex(sensor_data, thresholds) ==
    LET readings(node) ==
            IF node \in DOMAIN sensor_data THEN sensor_data[node] ELSE EmptyDict
        node_of(param) == IF param \in SeqRange(PlantParameters) THEN "plant" ELSE "hub"
        present == {param \in SeqRange(ParameterOrder) :
                       /\ param \in DOMAIN readings(node_of(param))
                       /\ param \in DOMAIN thresholds}
    IN  [param \in present |->
            LET value == readings(node_of(param))[param]
                min_val == thresholds[param].min
                max_val == thresholds[param].max
            IN  [status |-> CalculateParameterStatus(value, min_val, max_val),
                 value |-> value, min |-> min_val, max |-> max_val]]

\* The suggestion generate_suggestions adds for one parameter: none for an
\* optimal one and none for a parameter it has no branch for (uv_ambient).
ParameterSuggestion(param, data) ==
    IF data.status \notin {"critical", "warning"} THEN << >>
    ELSE LET low == data.value < data.min
         IN  CASE param = "moisture" ->
                    <<IF low THEN "Soil moisture is too low. Water the plant."
                      ELSE "Soil moisture is too high. Allow soil to dry before watering again.">>
               [] param = "temp_soil" ->
                    <<IF low THEN "Soil temperature is too low. Move plant to a warmer location."
                      ELSE "Soil temperature is too high. Move plant to a cooler location.">>
               [] param = "light_lux" ->
                    <<IF low THEN "Light level is too low. Move plant to a brighter location."
                      ELSE "Light level is too high. Provide some shade or move to a less bright location.">>
               [] param = "ph_water" ->
                    <<IF low THEN "Water pH is too low (acidic). Adjust water pH or use pH-balanced water."
                      ELSE "Water pH is too high (alkaline). Adjust water pH or use pH-balanced water.">>
               [] param = "ec_raw" ->
                    <<IF low THEN "Nutrient level (EC) is too low. Consider adding fertilizer."
                      ELSE "Nutrient level (EC) is too high. Flush soil with clean water.">>
               [] OTHER -> << >>

\* The suggestions for the first i parameters of the dict.
RECURSIVE ParameterSuggestions(_, _)
ParameterSuggestions(condition_index, i) ==
    IF i = 0 THEN << >>
    ELSE ParameterSuggestions(condition_index, i - 1)
         \o (IF ParameterOrder[i] \in DOMAIN condition_index
               THEN ParameterSuggestion(ParameterOrder[i], condition_index[ParameterOrder[i]])
               ELSE << >>)

\* visual_health.get('health_label'): << >> stands for None.
HealthLabel(visual_health) ==
    IF "health_label" \in DOMAIN visual_health THEN <<visual_health.health_label>> ELSE << >>

\* generate_suggestions up to its last step: the one suggestion of a healthy
\* plant, or the suggestions for the parameters and for wilting.
SpecificSuggestions(condition_index, visual_health) ==
    IF /\ \A param \in DOMAIN condition_index : condition_index[param].status = "optimal"
       /\ HealthLabel(visual_health) = <<"healthy">>
      THEN <<"Plant is healthy and all parameters are within optimal ranges.">>
      ELSE ParameterSuggestions(condition_index, Len(ParameterOrder))
           \o (IF HealthLabel(visual_health) = <<"wilting">>
                 THEN <<"Plant appears to be wilting based on visual analysis. Check water levels and environmental conditions.">>
                 ELSE << >>)

\* generate_suggestions without its last step, the general suggestion.
GenerateSuggestionsNoGeneral(condition_index, visual_health) ==
    SpecificSuggestions(condition_index, visual_health)

\* generate_suggestions.
GenerateSuggestions(condition_index, visual_health) ==
    LET suggestions == SpecificSuggestions(condition_index, visual_health)
    IN  IF suggestions = << >>
          THEN <<"Some parameters are outside optimal ranges. Monitor plant closely.">>
          ELSE suggestions

\* The visual health calculate_overall_health uses when it is given None.
DefaultVisualHealth == [health_label |-> "unknown", health_score |-> 50, confidence |-> "0.5"]

RECURSIVE SumScores(_, _)
SumScores(condition_index, params) ==
    IF params = {} THEN 0
    ELSE LET param == CHOOSE x \in params : TRUE
             points == CASE condition_index[param].status = "optimal" -> 100
                         [] condition_index[param].status = "warning" -> 50
                         [] OTHER -> 0
         IN  points + SumScores(condition_index, params \ {param})

\* calculate_overall_health.  The score is int(visual_score * 0.6 +
\* (sum(sensor_scores) / len(sensor_scores)) * 0.4), with 50 for the average
\* when there is no sensor score; it is computed here over the common
\* denominator, in whole numbers.
CalculateOverallHealth(condition_index, visual_health_or_none) ==
    LET visual_health == IF visual_health_or_none = << >> THEN DefaultVisualHealth
                         ELSE visual_health_or_none[1]
        statuses == {condition_index[param].status : param \in DOMAIN condition_index}
        has_critical == "critical" \in statuses
        has_warning == "warning" \in statuses
        visual_label == IF "health_label" \in DOMAIN visual_health
                          THEN visual_health.health_label ELSE "unknown"
        visual_score == IF "health_score" \in DOMAIN visual_health
                          THEN visual_health.health_score ELSE 50
        status == IF visual_label = "wilting" \/ has_critical THEN "critical"
                  ELSE IF visual_score < 70 \/ has_warning THEN "needs_attention"
                  ELSE "healthy"
        n == Cardinality(DOMAIN condition_index)
        score == IF n > 0
                   THEN (6 * visual_score * n
                         + 4 * SumScores(condition_index, DOMAIN condition_index))
                        \div (10 * n)
                   ELSE (6 * visual_score + 4 * 50) \div 10
    IN  [status |-> status, score |-> score,
         suggestions |-> GenerateSuggestions(condition_index, visual_health)]

\* The readings, the thresholds and the visual assessments given to
\* get_complete_status: a reading below the range, in the lower warning
\* margin, in the middle of the range and above it, for a parameter that
\* generate_suggestions knows and for one it does not.
ReadingChoices == {5, 11, 20, 55}
ThresholdChoices == [param \in SeqRange(ParameterOrder) |-> [min |-> 10, max |-> 30]]
VisualChoices ==
    {<< >>} \cup
    {<<[health_label |-> l, health_score |-> sc, confidence |-> "0.85"]>> :
        l \in {"healthy", "wilting", "unknown"}, sc \in {40, 69, 70, 85}}
SensorChoices ==
    {[plant |-> pl, hub |-> hb] :
        pl \in {EmptyDict} \cup {[moisture |-> v] : v \in ReadingChoices},
        hb \in {EmptyDict} \cup {[uv_ambient |-> v] : v \in ReadingChoices}}

\* get_complete_status, for the rows the database functions hand it: the
\* latest sensor data, the thresholds and the latest visual health.
GetCompleteStatus(sensor_data, thresholds, visual_health) ==
    LET condition_index == CalculateConditionIndex(sensor_data, thresholds)
    IN  /\ Returned("get_complete_status",
                    [sensor_data |-> sensor_data, visual_health |-> visual_health,
                     condition_index |-> condition_index,
                     overall_health |->
                         CalculateOverallHealth(condition_index, visual_health)])
        /\ UNCHANGED <<monitorVars, serviceVars, now>>

NextLogic ==
    \/ \E value \in 0..MaxReading, min_val \in MinChoices, max_val \in MaxChoices :
           CallCalculateParameterStatus(value, min_val, max_val)
    \/ \E sensor_data \in SensorChoices, visual_health \in VisualChoices :
           GetCompleteStatus(sensor_data, ThresholdChoices, visual_health)

SpecLogic == Init /\ [][NextLogic]_vars

----------------------------------------------------------------------------
(* C32: the status of a parameter *)

\* How far a value inside the range is from the nearer bound.
DistanceToBound(value, min_val, max_val) ==
    IF value - min_val < max_val - value THEN value - min_val ELSE max_val - value

\* C32: _calculate_parameter_status returns critical when the value is below
\* min or above max, warning when the value is inside [min, max] and closer
\* to one of the bounds than 10% of the range width, and optimal otherwise
\* (a value exactly 10% of the width away from a bound is optimal).
C32_ParameterStatus ==
    last_call # << >> /\ last_call[1].op = "_calculate_parameter_status" =>
        LET c == last_call[1].ret
            width == c.max_val - c.min_val
        IN  c.status =
                IF c.value < c.min_val \/ c.value > c.max_val THEN "critical"
                ELSE IF 10 * DistanceToBound(c.value, c.min_val, c.max_val) < width
                  THEN "warning"
                ELSE "optimal"

\* A value strictly inside the range, one unit short of the 10% margin of the
\* upper bound, is in warning.
C32_Witness ==
    /\ last_call # << >> /\ last_call[1].op = "_calculate_parameter_status"
    /\ LET c == last_call[1].ret
       IN  /\ c.status = "warning"
           /\ c.value < c.max_val
           /\ 10 * (c.max_val - c.value + 1) = c.max_val - c.min_val

----------------------------------------------------------------------------
(* C33: the overall health *)

\* C33: calculate_overall_health returns critical if the visual label is
\* wilting or a parameter is critical; otherwise needs_attention if the visual
\* score is below 70 or a parameter is in warning; otherwise healthy; and the
\* suggestions it returns are never empty.  (With no visual assessment the
\* label is unknown and the score 50.)
C33_OverallHealth ==
    last_call # << >> /\ last_call[1].op = "get_complete_status" =>
        LET c == last_call[1].ret
            visual == IF c.visual_health = << >> THEN DefaultVisualHealth
                      ELSE c.visual_health[1]
            any(status) == \E param \in DOMAIN c.condition_index :
                               c.condition_index[param].status = status
        IN  /\ c.overall_health.status =
                   IF visual.health_label = "wilting" \/ any("critical") THEN "critical"
                   ELSE IF visual.health_score < 70 \/ any("warning")
                     THEN "needs_attention"
                   ELSE "healthy"
            /\ Len(c.overall_health.suggestions) >= 1

\* A parameter generate_suggestions has no text for is in warning and the
\* plant is not wilting: the status is needs_attention and the one suggestion
\* is the general one.
C33_Witness ==
    /\ last_call # << >> /\ last_call[1].op = "get_complete_status"
    /\ LET c == last_call[1].ret
       IN  /\ DOMAIN c.condition_index = {"uv_ambient"}
           /\ c.condition_index["uv_ambient"].status = "warning"
           /\ c.overall_health.status = "needs_attention"
           /\ c.overall_health.suggestions =
                  <<"Some parameters are outside optimal ranges. Monitor plant closely.">>

----------------------------------------------------------------------------
(* connection_status.py: get_all_component_status *)

\* get_all_component_status(), which save_status_to_file and with it the
\* status-save thread call.  It takes _lock and, for each id of the ledger,
\* calls get_component_status, whose first statement is "with _lock:".
\* _lock is a threading.Lock, which its holder cannot take again: with an
\* empty ledger the loop body never runs and {} is returned; otherwise the
\* thread waits, inside its own with block, for the lock it holds.
GetAllComponentStatus ==
    /\ ledger_lock = << >>
    /\ IF DOMAIN component_last_activity = {}
         THEN /\ Returned("get_all_component_status", EmptyDict)
              /\ UNCHANGED ledger_lock
         ELSE /\ ledger_lock' = <<[holder |-> "get_all_component_status",
                                   waits_in |-> "get_component_status"]>>
              /\ NoReturn
    /\ UNCHANGED <<timeouts, serviceVars, now, ledgerVars, lifecycleVars, loops, tickVars,
                   snapshots, database, monitor_lock, last_notification>>

NextStatusSave ==
    \/ \E t \in TimePoints : Advance(t)
    \/ \E k \in {"main_hub"} \cup IngestionKeys : RecordComponentActivity(k)
    \/ \E k \in {"main_hub"} \cup IngestionKeys : CallGetComponentStatus(k)
    \/ CheckComponentsScan
    \/ CheckComponentsLog
    \/ GetAllComponentStatus

SpecStatusSave == Init /\ [][NextStatusSave]_vars

----------------------------------------------------------------------------
(* C34: get_all_component_status and the ledger lock *)

\* C34, as stated: get_all_component_status never waits for the ledger lock
\* while it holds it, so the lock is never left held by a call that cannot
\* go on.
C34_NoSelfDeadlock ==
    ~(ledger_lock # << >> /\ "waits_in" \in DOMAIN ledger_lock[1])

----------------------------------------------------------------------------
(* mqtt_client.py: the connection, the reconnection thread and the queue *)

MQTT_QOS == 1
MQTT_TOPIC_COMMAND_PUMP == "floraSeven/command/hub/pump"
DEFAULT_PUMP_DURATION == 3
MAX_PUMP_DURATION == 120
MAX_WATERING_DURATION == 120

\* The number of pump commands that are queued or published in a run.
MaxCommands == 2

\* The states and the durations given to send_water_command (<< >> is None),
\* and the ones the HTTP endpoint is asked for.
StateChoices == {"ON", "OFF", "PULSE"}
DurationChoices == {<< >>, <<0>>, <<5>>, <<MAX_PUMP_DURATION + 1>>}
RequestStates == {"ON", "off", "PULSE"}

\* json.dumps: the text of a payload, which json.loads gives back.
JsonDumps(payload) == [json |-> payload]

\* connection_status.record_component_activity('mqtt_client'), as on_connect
\* and start call it.
RegisterMqttClient ==
    /\ ledger_lock = << >>
    /\ component_last_activity' = DictPut(component_last_activity, "mqtt_client", now)
    /\ component_status' = DictPut(component_status, "mqtt_client",
                                   [status |-> CONNECTION_STATE_ONLINE,
                                    last_activity |-> IsoFormat(now),
                                    message |-> <<"Component is online">>])

\* What the MQTT client leaves alone when it registers with the ledger, and
\* when it does not.
mqttRest ==
    <<timeouts, records, lifecycleVars, loops, tickVars, snapshots, ioVars, loginVars,
      poolVars, now>>
mqttFrame == <<mqttRest, component_last_activity, component_status>>

\* start() up to its wait for the connection: the network loop runs and the
\* connection is asked for.
MqttStartBegin ==
    /\ mqtt_threads.started = "no"
    /\ mqtt_threads' = [mqtt_threads EXCEPT !.started = "waiting"]
    /\ NoReturn
    /\ UNCHANGED <<mqttFrame, connected, link, reconnect_delay, message_queue, published>>

\* start() after its wait: it starts the queue processor and, when the
\* connection has not come, the reconnection thread.
MqttStartEnd ==
    /\ mqtt_threads.started = "waiting"
    /\ IF connected
         THEN /\ RegisterMqttClient
              /\ mqtt_threads' = [mqtt_threads EXCEPT !.started = "yes",
                                                      !.queue_processor_running = TRUE]
              /\ Returned("start", TRUE)
         ELSE /\ mqtt_threads' = [mqtt_threads EXCEPT !.started = "yes",
                                                      !.reconnect = "check",
                                                      !.reconnect_thread_running = TRUE,
                                                      !.queue_processor_running = TRUE]
              /\ Returned("start", FALSE)
              /\ UNCHANGED <<component_last_activity, component_status>>
    /\ UNCHANGED <<mqttRest, connected, link, reconnect_delay, message_queue, published>>

\* on_connect(rc): the broker's answer to a connection request, which the
\* network thread delivers.
OnConnect(rc) ==
    /\ mqtt_threads.started \in {"waiting", "yes"}
    /\ ~link
    /\ IF rc = 0
         THEN /\ connected' = TRUE
              /\ link' = TRUE
              /\ reconnect_delay' = MQTT_RECONNECT_DELAY_MIN
              /\ RegisterMqttClient
         ELSE /\ connected' = FALSE
              /\ UNCHANGED <<link, reconnect_delay, component_last_activity,
                             component_status>>
    /\ NoReturn
    /\ UNCHANGED <<mqttRest, message_queue, published, mqtt_threads>>

\* The session with the broker is lost; the client has not been told yet.
LinkLost ==
    /\ link
    /\ link' = FALSE
    /\ NoReturn
    /\ UNCHANGED <<mqttFrame, connected, reconnect_delay, message_queue, published,
                   mqtt_threads>>

\* on_disconnect.
OnDisconnect ==
    /\ ~link
    /\ connected
    /\ connected' = FALSE
    /\ NoReturn
    /\ UNCHANGED <<mqttFrame, link, reconnect_delay, message_queue, published, mqtt_threads>>

\* _reconnection_loop: client.reconnect() returns.
ReconnectSucceeds ==
    /\ mqtt_threads.reconnect = "check"
    /\ ~connected
    /\ reconnect_delay' = MQTT_RECONNECT_DELAY_MIN
    /\ NoReturn
    /\ UNCHANGED <<mqttFrame, connected, link, message_queue, published, mqtt_threads>>

\* _reconnection_loop: client.reconnect() raises, and the thread sleeps for
\* reconnect_delay seconds.
ReconnectFails ==
    /\ mqtt_threads.reconnect = "check"
    /\ ~connected
    /\ mqtt_threads' = [mqtt_threads EXCEPT !.reconnect = "backoff"]
    /\ NoReturn
    /\ UNCHANGED <<mqttFrame, connected, link, reconnect_delay, message_queue, published>>

\* The backoff without its cap.
BackoffDelayUncapped(delay) == delay * 2

\* min(self.reconnect_delay * 2, self.max_reconnect_delay)
BackoffDelay(delay) ==
    IF delay * 2 < MQTT_RECONNECT_DELAY_MAX THEN delay * 2 ELSE MQTT_RECONNECT_DELAY_MAX

\* _reconnection_loop after the sleep: the delay is doubled, and the loop
\* goes on if the thread has not been told to stop.
Backoff ==
    /\ mqtt_threads.reconnect = "backoff"
    /\ reconnect_delay' = BackoffDelay(reconnect_delay)
    /\ mqtt_threads' = [mqtt_threads EXCEPT
                            !.reconnect = IF mqtt_threads.reconnect_thread_running
                                            THEN "check" ELSE "none"]
    /\ NoReturn
    /\ UNCHANGED <<mqttFrame, connected, link, message_queue, published>>

\* The queue processor that drops a message whose publish fails.
ProcessMessageQueueDropping ==
    /\ mqtt_threads.queue_processor_running
    /\ connected
    /\ message_queue # << >>
    /\ message_queue' = Tail(message_queue)
    /\ published' = IF link THEN Append(published, Head(message_queue)) ELSE published
    /\ NoReturn
    /\ UNCHANGED <<mqttFrame, connected, link, reconnect_delay, mqtt_threads>>

\* _process_message_queue, one turn of the loop with a message to send.
\* client.publish answers MQTT_ERR_SUCCESS when the client has a session with
\* the broker and MQTT_ERR_NO_CONN when it has not.
ProcessMessageQueue ==
    /\ mqtt_threads.queue_processor_running
    /\ connected
    /\ message_queue # << >>
    /\ IF link
         THEN /\ published' = Append(published, Head(message_queue))
              /\ message_queue' = Tail(message_queue)
         ELSE /\ message_queue' = Append(Tail(message_queue), Head(message_queue))
              /\ UNCHANGED published
    /\ NoReturn
    /\ UNCHANGED <<mqttFrame, connected, link, reconnect_delay, mqtt_threads>>

\* stop().
MqttStop ==
    /\ mqtt_threads.started = "yes"
    /\ mqtt_threads' = [mqtt_threads EXCEPT
                            !.started = "stopped",
                            !.reconnect = IF @ = "backoff" THEN "backoff" ELSE "none",
                            !.reconnect_thread_running = FALSE,
                            !.queue_processor_running = FALSE]
    /\ link' = FALSE
    /\ connected' = FALSE
    /\ Returned("stop", TRUE)
    /\ UNCHANGED <<mqttFrame, reconnect_delay, message_queue, published>>

\* The duration send_water_command puts into an ON payload.
PumpDurationUnlimited(duration_sec) ==
    IF duration_sec = << >> THEN DEFAULT_PUMP_DURATION ELSE duration_sec[1]

PumpDuration(duration_sec) ==
    LET given == IF duration_sec = << >> THEN DEFAULT_PUMP_DURATION ELSE duration_sec[1]
    IN  IF given > MAX_PUMP_DURATION THEN MAX_PUMP_DURATION ELSE given

\* The message send_water_command builds for a valid state.
PumpMessage(state, duration_sec, clock) ==
    LET stamp == [timestamp |-> IsoFormat(clock), message_id |-> <<"pump", clock>>]
        payload == IF state = "ON"
                     THEN [state |-> state, duration_sec |-> PumpDuration(duration_sec)]
                          @@ stamp
                     ELSE [state |-> state] @@ stamp
    IN  [topic |-> MQTT_TOPIC_COMMAND_PUMP, payload |-> JsonDumps(payload),
         qos |-> MQTT_QOS, retain |-> FALSE]

\* send_water_command(state, duration_sec): what it returns and what it
\* leaves in the queue and with the broker.
WaterCommand(state, duration_sec) ==
    LET message == PumpMessage(state, duration_sec, now)
        same == [message_queue |-> message_queue, published |-> published]
    IN  IF state \notin {"ON", "OFF"} THEN [ret |-> FALSE] @@ same
        ELSE IF ~connected
          THEN [ret |-> FALSE, message_queue |-> Append(message_queue, message),
                published |-> published]
        ELSE IF link
          THEN [ret |-> TRUE, message_queue |-> message_queue,
                published |-> Append(published, message)]
        ELSE [ret |-> FALSE] @@ same

SendWaterCommand(state, duration_sec) ==
    LET result == WaterCommand(state, duration_sec)
    IN  /\ Len(message_queue) + Len(published) < MaxCommands
        /\ message_queue' = result.message_queue
        /\ published' = result.published
        /\ Returned("send_water_command",
                    [state |-> state, duration_sec |-> duration_sec, ret |-> result.ret])
        /\ UNCHANGED <<mqttFrame, connected, link, reconnect_delay, mqtt_threads>>

\* str.upper(), for the states the requests carry.
Upper(text) ==
    CASE text = "on" -> "ON"
      [] text = "off" -> "OFF"
      [] OTHER -> text

\* POST /api/v1/command/water, for an authenticated request whose body has a
\* state and, when duration_sec is not << >>, a whole-number duration_sec.
\* (The moisture reading taken before watering and the watering event are
\* left out.)
WaterEndpoint(command) ==
    LET state == Upper(command.state)
        asked == state = "ON" /\ command.duration_sec # << >>
        duration_sec == IF asked THEN command.duration_sec ELSE << >>
        result == WaterCommand(state, duration_sec)
        refuse(message, error) ==
            /\ Returned("POST /api/v1/command/water",
                        [command |-> command,
                         response |-> ApiResponse(<< >>, message, FALSE, 400, <<error>>)])
            /\ UNCHANGED <<message_queue, published>>
    IN  /\ Len(message_queue) + Len(published) < MaxCommands
        /\ IF state \notin {"ON", "OFF"}
             THEN refuse("Invalid state parameter", "State must be 'ON' or 'OFF'")
           ELSE IF asked /\ duration_sec[1] <= 0
             THEN refuse("Invalid duration", "Duration must be a positive integer")
           ELSE IF asked /\ duration_sec[1] > MAX_WATERING_DURATION
             THEN refuse("Duration too long", "Maximum watering duration is 120 seconds")
           ELSE /\ message_queue' = result.message_queue
                /\ published' = result.published
                /\ Returned("POST /api/v1/command/water",
                       [command |-> command,
                        response |->
                          IF result.ret
                            THEN ApiResponse(
                                   <<[command |-> [state |-> state,
                                                   duration_sec |-> duration_sec,
                                                   moisture_before |-> << >>]]>>,
                                   "Water pump turned", TRUE, 200, << >>)
                            ELSE ApiResponse(<< >>, "Failed to send water command", FALSE,
                                             500, <<"MQTT command failed">>)])
        /\ UNCHANGED <<mqttFrame, connected, link, reconnect_delay, mqtt_threads>>

NextMqtt ==
    \/ MqttStartBegin
    \/ MqttStartEnd
    \/ \E rc \in {0, 3} : OnConnect(rc)
    \/ LinkLost
    \/ OnDisconnect
    \/ ReconnectSucceeds
    \/ ReconnectFails
    \/ Backoff
    \/ ProcessMessageQueue
    \/ MqttStop
    \/ \E state \in StateChoices, duration_sec \in DurationChoices :
           SendWaterCommand(state, duration_sec)
    \/ \E state \in RequestStates, duration_sec \in DurationChoices :
           WaterEndpoint([state |-> state, duration_sec |-> duration_sec])

SpecMqtt == Init /\ [][NextMqtt]_vars

\* The queue processor is scheduled again and again while it has work.
SpecMqttFair == SpecMqtt /\ WF_vars(ProcessMessageQueue)

----------------------------------------------------------------------------
(* C35: the pump commands that leave the server *)

\* The call of an operation the step has just answered.
Answered(op) == last_call' # << >> /\ last_call'[1].op = op /\ last_call' # last_call

\* Every pump command in the queue or with the broker has state ON or OFF
\* and, when ON, a duration of at most MAX_PUMP_DURATION.
PumpCommandsValid ==
    \A message \in SeqRange(message_queue) \cup SeqRange(published) :
        LET payload == message.payload.json
        IN  /\ payload.state \in {"ON", "OFF"}
            /\ payload.state = "ON" => payload.duration_sec <= MAX_PUMP_DURATION

\* send_water_command with a state other than ON and OFF returns False and
\* neither publishes nor queues.
InvalidStateRefused ==
    Answered("send_water_command") /\ last_call'[1].ret.state \notin {"ON", "OFF"} =>
        /\ ~last_call'[1].ret.ret
        /\ UNCHANGED <<message_queue, published>>

\* The duration a request to the endpoint asks for is out of range.
DurationOutOfRange(command) ==
    /\ command.duration_sec # << >>
    /\ \/ command.duration_sec[1] <= 0
       \/ command.duration_sec[1] > MAX_WATERING_DURATION

----------------------------------------------------------------------------
(* C36: the offline queue *)

----------------------------------------------------------------------------
(* C37: the reconnect delay *)

\* C37: reconnect_delay is always between MQTT_RECONNECT_DELAY_MIN and
\* MQTT_RECONNECT_DELAY_MAX; the step that ends the backoff of a failed
\* attempt doubles it, capped at the maximum; a step in which the client
\* becomes connected sets it to the minimum; and no other step changes it
\* except to the minimum.
C37_ReconnectDelay ==
    /\ [](reconnect_delay \in MQTT_RECONNECT_DELAY_MIN..MQTT_RECONNECT_DELAY_MAX)
    /\ [][LET ends == mqtt_threads.reconnect = "backoff"
                      /\ mqtt_threads'.reconnect # "backoff"
          IN  /\ ends => reconnect_delay' =
                            IF 2 * reconnect_delay <= MQTT_RECONNECT_DELAY_MAX
                              THEN 2 * reconnect_delay ELSE MQTT_RECONNECT_DELAY_MAX
              /\ ~connected /\ connected' => reconnect_delay' = MQTT_RECONNECT_DELAY_MIN
              /\ ~ends => reconnect_delay' \in {reconnect_delay, MQTT_RECONNECT_DELAY_MIN}
         ]_vars

\* After enough failed attempts the delay is at the maximum, the last
\* doubling having been capped.
C37_Witness ==
    /\ reconnect_delay = MQTT_RECONNECT_DELAY_MAX
    /\ ~connected
    /\ mqtt_threads.reconnect = "check"

----------------------------------------------------------------------------
(* database.py: the connection pool *)

MAX_POOL_SIZE == 5
MAX_IDLE_TIME == 60

\* The number of threads that use the database: one more than the pool holds.
MaxDbThreads == 6
DbThreads == 1..MaxDbThreads

\* The threads that run the database functions that end with conn.close();
\* the other threads run the ones that leave their connection open.
ClosingThreads == {1, 2}

\* The clock readings of the pool's runs: the start, and the first reading at
\* which a connection last handed out at the start is idle.
PoolPoints == {0, MAX_IDLE_TIME + 1}

AdvancePool(t) == AdvanceWithin(PoolPoints, t)

\* What a thread is doing: "idle" outside the database functions, "got" when
\* get_db_connection has handed it its connection and it is about to use it.
ThreadPc(thread_id) ==
    IF thread_id \in DOMAIN db_threads THEN db_threads[thread_id] ELSE "idle"

DictRemove(d, keys) == [x \in (DOMAIN d) \ keys |-> d[x]]

\* _cleanup_idle_connections as thread_id runs it: the pool's keys it removes.
\* A connection is a sqlite3 object made with the default check_same_thread,
\* so close() raises ProgrammingError in any thread but the one that made it;
\* the except clause logs that and leaves the entry where it is.
CleanedUp(thread_id, clock) ==
    {u \in DOMAIN last_connection_time :
        clock - last_connection_time[u] > MAX_IDLE_TIME /\ u = thread_id}

\* get_db_connection(), under _connection_pool_lock.  With a full pool the
\* oldest connection is another thread's; its close() raises ProgrammingError
\* outside any try block, so the call raises and the pool stays as it is.
GetDbConnection(thread_id) ==
    LET gone == CleanedUp(thread_id, now)
        pool == DictRemove(connection_pool, gone)
        times == DictRemove(last_connection_time, gone)
        answer(r) == Returned("get_db_connection", r)
    IN  /\ ThreadPc(thread_id) = "idle"
        /\ IF thread_id \in DOMAIN pool
             THEN /\ connection_pool' = pool
                  /\ last_connection_time' = DictPut(times, thread_id, now)
                  /\ db_threads' = DictPut(db_threads, thread_id, "got")
                  /\ answer([conn |-> pool[thread_id]])
           ELSE IF Cardinality(DOMAIN pool) >= MAX_POOL_SIZE
             THEN /\ connection_pool' = pool
                  /\ last_connection_time' = times
                  /\ UNCHANGED db_threads
                  /\ answer([raised |-> "ProgrammingError"])
           ELSE /\ connection_pool' = DictPut(pool, thread_id, [open |-> TRUE])
                /\ last_connection_time' = DictPut(times, thread_id, now)
                /\ db_threads' = DictPut(db_threads, thread_id, "got")
                /\ answer([conn |-> [open |-> TRUE]])
        /\ UNCHANGED <<monitorVars, loginVars, mqttVars, now>>

\* The rest of a database function after get_db_connection: the thread
\* operates on its connection (cursor, execute, commit), which raises
\* ProgrammingError when the connection is closed, and then, in the functions
\* that end with conn.close() (optimize_database, get_notifications and
\* others), closes it; the connection stays in the pool either way.
UseConnection(thread_id, closes) ==
    /\ ThreadPc(thread_id) = "got"
    /\ db_threads' = DictPut(db_threads, thread_id, "idle")
    /\ IF connection_pool[thread_id].open
         THEN /\ connection_pool' =
                     [connection_pool EXCEPT ![thread_id].open = ~closes]
              /\ Returned("database function", [raised |-> << >>])
         ELSE /\ UNCHANGED connection_pool
              /\ Returned("database function", [raised |-> <<"ProgrammingError">>])
    /\ UNCHANGED <<monitorVars, loginVars, mqttVars, last_connection_time, now>>

NextPool ==
    \/ \E t \in PoolPoints : AdvancePool(t)
    \/ \E thread_id \in DbThreads : GetDbConnection(thread_id)
    \/ \E thread_id \in DbThreads, closes \in BOOLEAN :
           /\ closes => thread_id \in ClosingThreads
           /\ UseConnection(thread_id, closes)

SpecPool == Init /\ [][NextPool]_vars

----------------------------------------------------------------------------
(* C39: the connection pool under concurrent use *)

\* C39, as stated: the pool never holds more than MAX_POOL_SIZE connections,
\* and the connection a thread has got from get_db_connection and is about to
\* use is open.
C39_PoolSafe ==
    /\ Cardinality(DOMAIN connection_pool) <= MAX_POOL_SIZE
    /\ \A thread_id \in DOMAIN connection_pool :
           ThreadPc(thread_id) = "got" => connection_pool[thread_id].open

----------------------------------------------------------------------------
(* C40: the status changes check_components records *)

\* The status the ledger has stored for a component.
StoredStatus(component_id) ==
    IF component_id \in DOMAIN component_status
      THEN component_status[component_id].status
      ELSE CONNECTION_STATE_UNKNOWN

\* The components for which a scan of check_components records a change: the
\* ones whose entry of _last_notification it writes.
RecordedIn ==
    {c \in DOMAIN last_notification' :
        c \notin DOMAIN last_notification \/ last_notification'[c] # last_notification[c]}

\* The rows of a table for one component.
RowsFor(rows, component_id) == SelectSeq(rows, LAMBDA row : row.component_id = component_id)

\* The ConnectionEvents rows that report a change to error or critical.
SevereEvents ==
    SelectSeq(database.ConnectionEvents,
              LAMBDA row : row.new_state \in {CONNECTION_STATE_ERROR,
                                              CONNECTION_STATE_CRITICAL})

====
